---- MODULE Spec2Model ----
(***************************************************************************)
(* Model of the Risk & Position Manager of the Kraken trading bot          *)
(* (src/risk_manager.py).  Python floats are IEEE-754 binary64 values; the *)
(* model computes with them exactly as the interpreter does: every         *)
(* arithmetic operation is carried out on integers of arbitrary size and   *)
(* then rounded to 53 significant bits, ties to even.  Exponent overflow   *)
(* and subnormals do not occur for the magnitudes the model uses.          *)
(***************************************************************************)
EXTENDS Integers, Sequences, FiniteSets, TLC

(***************************************************************************)
(* Natural numbers of arbitrary size: little-endian sequences of 15-bit    *)
(* limbs without leading zero limbs; <<>> is zero.                         *)
(***************************************************************************)
LimbBits == 15
LimbBase == 32768

RECURSIVE Pow2(_)
Pow2(k) == IF k = 0 THEN 1 ELSE 2 * Pow2(k - 1)

RECURSIVE IntBitLen(_)
IntBitLen(n) == IF n = 0 THEN 0 ELSE 1 + IntBitLen(n \div 2)

RECURSIVE BFromInt(_)
BFromInt(n) == IF n = 0 THEN <<>> ELSE <<n % LimbBase>> \o BFromInt(n \div LimbBase)

RECURSIVE BNorm(_)
BNorm(a) ==
    IF a = <<>> THEN a
    ELSE IF a[Len(a)] = 0 THEN BNorm(SubSeq(a, 1, Len(a) - 1)) ELSE a

BDigit(a, i) == IF i <= Len(a) THEN a[i] ELSE 0

RECURSIVE BAddC(_, _, _, _)
BAddC(a, b, i, c) ==
    IF i > Len(a) /\ i > Len(b)
    THEN (IF c = 0 THEN <<>> ELSE <<c>>)
    ELSE LET s == BDigit(a, i) + BDigit(b, i) + c
         IN  <<s % LimbBase>> \o BAddC(a, b, i + 1, s \div LimbBase)

BAdd(a, b) == BAddC(a, b, 1, 0)

RECURSIVE BSubC(_, _, _, _)
BSubC(a, b, i, br) ==
    IF i > Len(a) THEN <<>>
    ELSE LET d == a[i] - BDigit(b, i) - br
         IN  IF d < 0 THEN <<d + LimbBase>> \o BSubC(a, b, i + 1, 1)
                      ELSE <<d>> \o BSubC(a, b, i + 1, 0)

\* a - b for a >= b
BSub(a, b) == BNorm(BSubC(a, b, 1, 0))

RECURSIVE BCmpAt(_, _, _)
BCmpAt(a, b, i) ==
    IF i = 0 THEN 0
    ELSE IF a[i] > b[i] THEN 1
    ELSE IF a[i] < b[i] THEN -1
    ELSE BCmpAt(a, b, i - 1)

BCmp(a, b) ==
    IF Len(a) > Len(b) THEN 1
    ELSE IF Len(a) < Len(b) THEN -1
    ELSE BCmpAt(a, b, Len(a))

RECURSIVE BMulSmallC(_, _, _, _)
BMulSmallC(a, k, i, c) ==
    IF i > Len(a) THEN (IF c = 0 THEN <<>> ELSE <<c>>)
    ELSE LET p == a[i] * k + c
         IN  <<p % LimbBase>> \o BMulSmallC(a, k, i + 1, p \div LimbBase)

\* a * k for 0 <= k < LimbBase
BMulSmall(a, k) == IF k = 0 THEN <<>> ELSE BMulSmallC(a, k, 1, 0)

BShiftLimbs(a, n) == IF a = <<>> THEN a ELSE [i \in 1..n |-> 0] \o a

RECURSIVE BMulFrom(_, _, _)
BMulFrom(a, b, j) ==
    IF j > Len(b) THEN <<>>
    ELSE BAdd(BShiftLimbs(BMulSmall(a, b[j]), j - 1), BMulFrom(a, b, j + 1))

BMul(a, b) == BMulFrom(a, b, 1)

\* a * 2^k
BShl(a, k) == BShiftLimbs(BMulSmall(a, Pow2(k % LimbBits)), k \div LimbBits)

RECURSIVE BDivSmallR(_, _, _, _)
BDivSmallR(a, k, i, r) ==
    IF i = 0 THEN <<>>
    ELSE LET cur == r * LimbBase + a[i]
         IN  BDivSmallR(a, k, i - 1, cur % k) \o <<cur \div k>>

\* floor(a / 2^k)
BShr(a, k) ==
    LET q    == k \div LimbBits
        rest == IF q >= Len(a) THEN <<>> ELSE SubSeq(a, q + 1, Len(a))
    IN  BNorm(BDivSmallR(rest, Pow2(k % LimbBits), Len(rest), 0))

BBitLen(a) ==
    IF a = <<>> THEN 0 ELSE LimbBits * (Len(a) - 1) + IntBitLen(a[Len(a)])

\* The largest d in lo..hi with b * d <= r
RECURSIVE BQuotDigit(_, _, _, _)
BQuotDigit(r, b, lo, hi) ==
    IF lo = hi THEN lo
    ELSE LET mid == (lo + hi + 1) \div 2
         IN  IF BCmp(BMulSmall(b, mid), r) <= 0
             THEN BQuotDigit(r, b, mid, hi)
             ELSE BQuotDigit(r, b, lo, mid - 1)

\* floor(r / b) for r < b * LimbBase and the top limb of b at least LimbBase / 2:
\* the quotient of the leading limbs is at most 2 above it (Knuth, 4.3.1 D).
BQuotLimb(r, b) ==
    LET n    == Len(b)
        top  == (BDigit(r, n + 1) * LimbBase + BDigit(r, n)) \div b[n]
        qhat == IF top > LimbBase - 1 THEN LimbBase - 1 ELSE top
    IN  BQuotDigit(r, b, IF qhat < 2 THEN 0 ELSE qhat - 2, qhat)

\* A quotient with one more low limb
BDivPut(rest, d) == [q |-> rest.q \o <<d>>, r |-> rest.r]

\* Long division, limbs i .. 1 of a still to bring down, r the remainder so far;
\* cur is the remainder with the next limb brought down, d its quotient limb.
RECURSIVE BDivLimbs(_, _, _, _)
BDivTake(a, b, i, cur, d) ==
    IF d >= 0    \* always: d is computed before the limbs that follow it
    THEN BDivPut(BDivLimbs(a, b, i - 1, BSub(cur, BMulSmall(b, d))), d)
    ELSE [q |-> <<>>, r |-> cur]

BDivStep(a, b, i, cur) == BDivTake(a, b, i, cur, BQuotLimb(cur, b))

BDivLimbs(a, b, i, r) ==
    IF i = 0 THEN [q |-> <<>>, r |-> r]
    ELSE BDivStep(a, b, i, BNorm(<<a[i]>> \o r))

BDivResult(res) == [q |-> BNorm(res.q), exact |-> res.r = <<>>]

BDivScaled(a, b) == BDivResult(BDivLimbs(a, b, Len(a), <<>>))

\* quotient of a / b and whether it is exact, b > 0; both are scaled first so
\* that the top limb of the divisor has its highest bit set
BDivMod(a, b) ==
    BDivScaled(BShl(a, LimbBits - IntBitLen(b[Len(b)])),
               BShl(b, LimbBits - IntBitLen(b[Len(b)])))

(***************************************************************************)
(* binary64 values: (-1)^s * m * 2^e with m of exactly 53 bits, or zero.   *)
(***************************************************************************)
MantBits == 53

Zero == [s |-> 0, m |-> <<>>, e |-> 0]

\* A mantissa of 54 bits after rounding up is halved
FRoundCarry(s, e, q1) ==
    IF BBitLen(q1) > MantBits
    THEN [s |-> s, m |-> BShr(q1, 1), e |-> e + 1]
    ELSE [s |-> s, m |-> q1, e |-> e]

\* c compares the bits cut off with one half of the last place kept
FRoundUp(s, e, q, c) ==
    IF c = 1 \/ (c = 0 /\ q[1] % 2 = 1)
    THEN FRoundCarry(s, e, BAdd(q, <<1>>))
    ELSE [s |-> s, m |-> q, e |-> e]

\* q is m without its sh low bits
FRoundCut(s, m, e, sh, q) ==
    FRoundUp(s, e + sh, q, BCmp(BSub(m, BShl(q, sh)), BShl(<<1>>, sh - 1)))

FRoundLen(s, m, e, L) ==
    IF L = 0 THEN Zero
    ELSE IF L <= MantBits
    THEN [s |-> s, m |-> BShl(m, MantBits - L), e |-> e - (MantBits - L)]
    ELSE FRoundCut(s, m, e, L - MantBits, BShr(m, L - MantBits))

\* The double nearest to (-1)^s * m * 2^e, ties to even.
FRound(s, m, e) == FRoundLen(s, m, e, BBitLen(m))

FromInt(n) == FRound(IF n < 0 THEN 1 ELSE 0, BFromInt(IF n < 0 THEN -n ELSE n), 0)

FIsZero(x) == x.m = <<>>

FNeg(x) == IF FIsZero(x) THEN x ELSE [x EXCEPT !.s = 1 - x.s]

FAbs(x) == [x EXCEPT !.s = 0]

\* -1, 0, 1 as the magnitude of x is below, equal to, above that of y
FCmpMag(x, y) ==
    IF FIsZero(x) THEN (IF FIsZero(y) THEN 0 ELSE -1)
    ELSE IF FIsZero(y) THEN 1
    ELSE IF x.e > y.e THEN 1
    ELSE IF x.e < y.e THEN -1
    ELSE BCmp(x.m, y.m)

FSign(x) == IF FIsZero(x) THEN 0 ELSE IF x.s = 0 THEN 1 ELSE -1

FCmp(x, y) ==
    IF FSign(x) # FSign(y) THEN (IF FSign(x) < FSign(y) THEN -1 ELSE 1)
    ELSE IF FSign(x) >= 0 THEN FCmpMag(x, y) ELSE FCmpMag(y, x)

FLt(x, y) == FCmp(x, y) < 0
FLe(x, y) == FCmp(x, y) <= 0
FGt(x, y) == FCmp(x, y) > 0
FGe(x, y) == FCmp(x, y) >= 0

FMul(x, y) ==
    IF FIsZero(x) \/ FIsZero(y) THEN Zero
    ELSE FRound((x.s + y.s) % 2, BMul(x.m, y.m), x.e + y.e)

FAddDiff(sx, sy, mx, my, e0, c) ==
    IF c = 0 THEN Zero
    ELSE IF c > 0 THEN FRound(sx, BSub(mx, my), e0)
    ELSE FRound(sy, BSub(my, mx), e0)

\* mx and my are the mantissas at the common exponent e0
FAddAligned(sx, sy, mx, my, e0) ==
    IF sx = sy THEN FRound(sx, BAdd(mx, my), e0)
    ELSE FAddDiff(sx, sy, mx, my, e0, BCmp(mx, my))

FAddAt(x, y, e0) ==
    FAddAligned(x.s, y.s, BShl(x.m, x.e - e0), BShl(y.m, y.e - e0), e0)

FAdd(x, y) ==
    IF FIsZero(x) THEN y
    ELSE IF FIsZero(y) THEN x
    ELSE FAddAt(x, y, IF x.e < y.e THEN x.e ELSE y.e)

FSub(x, y) == FAdd(x, FNeg(y))

\* dm is the quotient of the mantissas with two guard bits; a sticky bit
\* records an inexact quotient
FDivQuot(x, y, dm) ==
    FRound((x.s + y.s) % 2, BAdd(BShl(dm.q, 1), IF dm.exact THEN <<>> ELSE <<1>>),
           x.e - y.e - (MantBits + 3))

\* x / y; no value for y = 0, where Python raises ZeroDivisionError
FDiv(x, y) ==
    CASE ~FIsZero(y) ->
        IF FIsZero(x) THEN Zero
        ELSE FDivQuot(x, y, BDivMod(BShl(x.m, MantBits + 2), y.m))

\* The double a decimal literal n/d denotes (correctly rounded)
Dec(n, d) == FDiv(FromInt(n), FromInt(d))

\* Python's min(a, b): the first of the smallest
FMin(a, b) == IF FLt(b, a) THEN b ELSE a


RECURSIVE FSumFrom(_, _, _)
FSumFrom(xs, i, acc) ==
    IF i > Len(xs) THEN acc ELSE FSumFrom(xs, i + 1, FAdd(acc, xs[i]))

\* Python's sum(): left to right, starting from 0
FSum(xs) == FSumFrom(xs, 1, Zero)

(***************************************************************************)
(* RiskConfig: the values of the test suite's setUp, with small limits for *)
(* the number of positions and of consecutive losses.                      *)
(***************************************************************************)
total_capital == FromInt(10000)
risk_per_trade == Dec(2, 100)
max_positions == 2
max_position_size == Dec(10, 100)
max_drawdown == Dec(15, 100)
max_consecutive_losses == 2
pause_after_max_losses == TRUE

(***************************************************************************)
(* Inputs of the operations.                                               *)
(***************************************************************************)
MaxTime == 4

Pair == "BTC/USD"

Order(side, volume) ==
    [side          |-> side,
     entry_price   |-> FromInt(100),
     volume        |-> FromInt(volume),
     stop_loss     |-> FromInt(IF side = "buy" THEN 90 ELSE 110),
     take_profit_1 |-> FromInt(IF side = "buy" THEN 110 ELSE 90),
     take_profit_2 |-> FromInt(IF side = "buy" THEN 120 ELSE 80),
     take_profit_3 |-> FromInt(IF side = "buy" THEN 130 ELSE 70)]

\* <<position_id, order>>: a long, a short and an order without volume
Opens ==
    {<<"p1", Order("buy", 30)>>, <<"p2", Order("sell", 1)>>, <<"p3", Order("buy", 0)>>}

\* The orders of the sizing runs: a long that commits most of the capital
SizeOpens ==
    {<<"p1", Order("buy", 95)>>, <<"p2", Order("sell", 1)>>}

UpdatePrices == {FromInt(50)}

TargetPrices == {FromInt(110)}

StopPrices == {FromInt(40), FromInt(110)}

Levels == 1..3

\* <<entry_price, stop_loss, confidence>>
SizeInputs ==
    {<<FromInt(45000), FromInt(44000), FromInt(1)>>,
     <<FromInt(100), FromInt(50), Dec(8, 10)>>,
     <<FromInt(110), FromInt(100), FromInt(1)>>,
     <<FromInt(100), FromInt(100), FromInt(1)>>}

(***************************************************************************)
(* State of a RiskManager and of the file bot_state.json.                  *)
(***************************************************************************)
VARIABLES
    positions,           \* self.positions: dict in insertion order, as a sequence
    closed_positions,    \* self.closed_positions
    consecutive_losses,  \* self.consecutive_losses
    total_realized_pnl,  \* self.total_realized_pnl
    peak_capital,        \* self.peak_capital
    snapshot,            \* contents of bot_state.json
    disk,                \* what the file system does with the next write
    now,                 \* the clock read by datetime.now()
    result,              \* the last call: its name, what it returned and, when
                         \* it saved the state, its arguments
    kraken,              \* the KrakenClient, its _request in progress and
                         \* what the exchange has received from it
    backtest             \* the Backtester: its fields, the place of run_backtest
                         \* in its loop, and what its caller keeps of the runs

vars == <<positions, closed_positions, consecutive_losses, total_realized_pnl,
          peak_capital, snapshot, disk, now, result, backtest, kraken>>

\* ---- Position ----------------------------------------------------------

NewPosition(id, o, t) ==
    [position_id       |-> id,
     pair              |-> Pair,
     side              |-> o.side,
     entry_price       |-> o.entry_price,
     volume            |-> o.volume,
     stop_loss         |-> o.stop_loss,
     take_profit_1     |-> o.take_profit_1,
     take_profit_2     |-> o.take_profit_2,
     take_profit_3     |-> o.take_profit_3,
     entry_time        |-> t,
     status            |-> "OPEN",
     volume_closed_tp1 |-> Zero,
     volume_closed_tp2 |-> Zero,
     volume_closed_tp3 |-> Zero,
     current_price     |-> Zero,
     unrealized_pnl    |-> Zero,
     realized_pnl      |-> Zero]

get_open_volume(p) ==
    FSub(FSub(FSub(p.volume, p.volume_closed_tp1), p.volume_closed_tp2),
         p.volume_closed_tp3)

update_current_price(p, price) ==
    [p EXCEPT !.current_price = price,
              !.unrealized_pnl =
                  IF p.side = "buy"
                  THEN FMul(FSub(price, p.entry_price), get_open_volume(p))
                  ELSE FMul(FSub(p.entry_price, price), get_open_volume(p))]

\* ---- the dict self.positions -------------------------------------------

Has(ps, id) == \E i \in 1..Len(ps) : ps[i].position_id = id

IndexOf(ps, id) == CHOOSE i \in 1..Len(ps) : ps[i].position_id = id

Get(ps, id) == ps[IndexOf(ps, id)]

\* ps[id] = p: a new key goes last, an existing key keeps its place
\* Variant that always adds an entry
PutAppending(ps, id, p) == Append(ps, p)

Put(ps, id, p) ==
    IF Has(ps, id) THEN [ps EXCEPT ![IndexOf(ps, id)] = p] ELSE Append(ps, p)

Pop(ps, id) ==
    LET k == IndexOf(ps, id)
    IN  SubSeq(ps, 1, k - 1) \o SubSeq(ps, k + 1, Len(ps))

\* ---- persistence -------------------------------------------------------

IsoFormat(t) == <<"iso", t>>

\* datetime.fromisoformat of a string written by isoformat
FromIsoFormat(text) == text[2]

\* status.value: the JSON string of a PositionStatus
StatusValue(status) == <<"str", status>>

\* PositionStatus(value): the member that has the value
PositionStatus(value) ==
    CHOOSE status \in {"OPEN", "PARTIALLY_CLOSED", "CLOSED", "STOPPED_OUT"} :
        StatusValue(status) = value

ToJson(p) ==
    [p EXCEPT !.entry_time = IsoFormat(p.entry_time),
              !.status = StatusValue(p.status)]

\* Position(**pos_data) after the datetime and the Enum are rebuilt
FromJson(data) ==
    [data EXCEPT !.entry_time = FromIsoFormat(data.entry_time),
                 !.status = PositionStatus(data.status)]

NoSnapshot ==
    [exists |-> FALSE, valid |-> TRUE, positions |-> <<>>,
     consecutive_losses |-> 0, total_realized_pnl |-> Zero]

\* A file that json.dump did not finish: it does not parse
Truncated ==
    [exists |-> TRUE, valid |-> FALSE, positions |-> <<>>,
     consecutive_losses |-> 0, total_realized_pnl |-> Zero]

save_state(ps, losses, pnl) ==
    [exists             |-> TRUE,
     valid              |-> TRUE,
     positions          |-> [i \in 1..Len(ps) |-> ToJson(ps[i])],
     consecutive_losses |-> losses,
     total_realized_pnl |-> pnl]

\* What the file system can do with a write of bot_state.json
DiskConditions == {"ok", "denied", "full"}

\* bot_state.json after save_state has run and swallowed what was raised:
\* written; left as it was because open() raised; cut short because the
\* write raised after open() had emptied the file
Write(file, condition, state) ==
    CASE condition = "ok"     -> state
      [] condition = "denied" -> file
      [] condition = "full"   -> Truncated

\* The status of the entry is a value of PositionStatus
ReadableEntry(data) ==
    \E status \in {"OPEN", "PARTIALLY_CLOSED", "CLOSED", "STOPPED_OUT"} :
        StatusValue(status) = data.status

\* The loop of load_state over the entries: it stops at the first entry that
\* raises and keeps the positions it has put before
RECURSIVE LoadFrom(_, _, _)
LoadFrom(entries, i, loaded) ==
    IF i > Len(entries) THEN [positions |-> loaded, raised |-> FALSE]
    ELSE IF ~ReadableEntry(entries[i]) THEN [positions |-> loaded, raised |-> TRUE]
    ELSE LoadFrom(entries, i + 1, Append(loaded, FromJson(entries[i])))

\* The counters are read after the loop, when nothing was raised
LoadCounters(file, loop) ==
    [positions          |-> loop.positions,
     consecutive_losses |-> IF loop.raised THEN 0 ELSE file.consecutive_losses,
     total_realized_pnl |-> IF loop.raised THEN Zero ELSE file.total_realized_pnl]

\* Variant that restores the positions and not the counters
load_state_positions_only(file) ==
    [positions          |-> IF file.exists /\ file.valid
                            THEN LoadFrom(file.positions, 1, <<>>).positions
                            ELSE <<>>,
     consecutive_losses |-> 0,
     total_realized_pnl |-> Zero]

\* What load_state leaves in a manager that __init__ has just emptied
load_state(file) ==
    IF ~file.exists \/ ~file.valid
    THEN [positions |-> <<>>, consecutive_losses |-> 0, total_realized_pnl |-> Zero]
    ELSE LoadCounters(file, LoadFrom(file.positions, 1, <<>>))

\* ---- capital -----------------------------------------------------------

get_current_capital(ps, pnl) ==
    FAdd(FAdd(total_capital, pnl),
         FSum([i \in 1..Len(ps) |-> ps[i].unrealized_pnl]))

get_available_capital(ps, pnl) ==
    FSub(get_current_capital(ps, pnl),
         FSum([i \in 1..Len(ps) |->
                   FMul(ps[i].entry_price, get_open_volume(ps[i]))]))

get_drawdown(ps, pnl, peak) ==
    FDiv(FSub(peak, get_current_capital(ps, pnl)), peak)

\* ---- risk gate and sizing ----------------------------------------------

\* Variant of the gate that denies at a drawdown equal to the limit
can_open_position_at_limit(ps, pnl, peak, losses) ==
    IF Len(ps) >= max_positions
    THEN <<FALSE, "max_positions">>
    ELSE IF FGe(FDiv(FSub(peak, get_current_capital(ps, pnl)), peak), max_drawdown)
    THEN <<FALSE, "max_drawdown">>
    ELSE IF losses >= max_consecutive_losses /\ pause_after_max_losses
    THEN <<FALSE, "max_consecutive_losses">>
    ELSE <<TRUE, "OK">>

\* Variant of the gate that denies only above the position limit
can_open_position_above_limit(ps, pnl, peak, losses) ==
    IF Len(ps) > max_positions
    THEN <<FALSE, "max_positions">>
    ELSE IF FGt(FDiv(FSub(peak, get_current_capital(ps, pnl)), peak), max_drawdown)
    THEN <<FALSE, "max_drawdown">>
    ELSE IF losses >= max_consecutive_losses /\ pause_after_max_losses
    THEN <<FALSE, "max_consecutive_losses">>
    ELSE <<TRUE, "OK">>

\* Variant of the gate without the test of the losses in a row
can_open_position_any_losses(ps, pnl, peak, losses) ==
    IF Len(ps) >= max_positions
    THEN <<FALSE, "max_positions">>
    ELSE IF FGt(FDiv(FSub(peak, get_current_capital(ps, pnl)), peak), max_drawdown)
    THEN <<FALSE, "max_drawdown">>
    ELSE <<TRUE, "OK">>

can_open_position(ps, pnl, peak, losses) ==
    IF Len(ps) >= max_positions
    THEN <<FALSE, "max_positions">>
    ELSE IF FGt(FDiv(FSub(peak, get_current_capital(ps, pnl)), peak), max_drawdown)
    THEN <<FALSE, "max_drawdown">>
    ELSE IF losses >= max_consecutive_losses /\ pause_after_max_losses
    THEN <<FALSE, "max_consecutive_losses">>
    ELSE <<TRUE, "OK">>

calculate_position_size(ps, pnl, entry_price, stop_loss, confidence) ==
    LET risk_amount   == FMul(FMul(total_capital, risk_per_trade), confidence)
        risk_per_unit == FAbs(FSub(entry_price, stop_loss))
    IN  IF FIsZero(risk_per_unit) THEN Zero
        ELSE LET volume     == FDiv(risk_amount, risk_per_unit)
                 max_volume == FDiv(FMul(total_capital, max_position_size), entry_price)
                 capped     == FMin(volume, max_volume)
                 by_capital == FDiv(get_available_capital(ps, pnl), entry_price)
             IN  FMin(capped, by_capital)

\* ---- statistics --------------------------------------------------------

\* Variant that counts a trade without gain or loss as won
NotLost(p) == FGe(p.realized_pnl, Zero)

Won(p) == FGt(p.realized_pnl, Zero)

Lost(p) == FLt(p.realized_pnl, Zero)

RealizedOf(closed) == [i \in 1..Len(closed) |-> closed[i].realized_pnl]

\* winning_trades / total_trades, or 0 without trades
WinRate(winning_trades, total_trades) ==
    IF total_trades > 0 THEN Dec(winning_trades, total_trades) ELSE Zero

\* total_profit / total_loss, or 0 without losses
ProfitFactor(total_profit, total_loss) ==
    IF FGt(total_loss, Zero) THEN FDiv(total_profit, total_loss) ELSE Zero

get_statistics(ps, closed, losses, pnl, peak) ==
    [total_trades       |-> Len(closed),
     winning_trades     |-> Len(SelectSeq(closed, Won)),
     losing_trades      |-> Len(closed) - Len(SelectSeq(closed, Won)),
     win_rate           |-> WinRate(Len(SelectSeq(closed, Won)), Len(closed)),
     total_profit       |-> FSum(RealizedOf(SelectSeq(closed, Won))),
     total_loss         |-> FAbs(FSum(RealizedOf(SelectSeq(closed, Lost)))),
     profit_factor      |-> ProfitFactor(FSum(RealizedOf(SelectSeq(closed, Won))),
                                FAbs(FSum(RealizedOf(SelectSeq(closed, Lost))))),
     total_pnl          |-> pnl,
     current_capital    |-> get_current_capital(ps, pnl),
     available_capital  |-> get_available_capital(ps, pnl),
     drawdown           |-> get_drawdown(ps, pnl, peak),
     open_positions     |-> Len(ps),
     consecutive_losses |-> losses]

Call(op, args, ret) == [op |-> op, args |-> args, ret |-> ret]

\* Backtester.__init__: the fields of a new Backtester whose caller keeps runs
Backtester(runs) ==
    [pc               |-> "ready",
     ohlcv_data       |-> <<>>,
     i                |-> 0,
     signal           |-> <<>>,
     pending          |-> <<>>,
     trades_executed  |-> 0,
     total_commission |-> Zero,
     equity_curve     |-> <<total_capital>>,
     timestamps       |-> <<>>,
     opened           |-> <<>>,
     runs             |-> runs]

\* No Backtester has been constructed
NoBacktester == [Backtester(<<>>) EXCEPT !.pc = "none"]

\* A KrakenClient constructed when the clock reads t milliseconds, with no
\* _request in progress; orders is the side of the exchange: the AddOrder
\* requests it has received and acted on
KrakenClient(t) ==
    [pc            |-> "idle",
     nonce_counter |-> t,
     calls         |-> 0,
     request       |-> <<>>,
     stack         |-> <<>>,
     sent          |-> <<>>,
     slept         |-> <<>>,
     raised        |-> "none",
     orders        |-> <<>>]

\* No KrakenClient has been constructed
NoClient == [KrakenClient(0) EXCEPT !.pc = "none"]

Init ==
    /\ backtest = NoBacktester
    /\ kraken = NoClient
    /\ positions = <<>>
    /\ closed_positions = <<>>
    /\ consecutive_losses = 0
    /\ total_realized_pnl = Zero
    /\ peak_capital = total_capital
    /\ snapshot = NoSnapshot
    /\ disk = "ok"
    /\ now = 0
    /\ result = Call("init", <<>>, TRUE)

CanOpenPosition ==
    /\ result' = Call("can_open_position", <<>>,
                      can_open_position(positions, total_realized_pnl,
                                        peak_capital, consecutive_losses))
    /\ UNCHANGED <<positions, closed_positions, consecutive_losses,
                   total_realized_pnl, peak_capital, disk, snapshot, now>>

CalculatePositionSize(in) ==
    /\ result' = Call("calculate_position_size", in,
                      calculate_position_size(positions, total_realized_pnl,
                                              in[1], in[2], in[3]))
    /\ UNCHANGED <<positions, closed_positions, consecutive_losses,
                   total_realized_pnl, peak_capital, disk, snapshot, now>>

\* Variant of open_position that does not consult the gate
OpenPositionUnchecked(id, o) ==
    /\ now < MaxTime
    /\ positions' = Put(positions, id, NewPosition(id, o, now))
    /\ snapshot' = Write(snapshot, disk,
                             save_state(positions', consecutive_losses, total_realized_pnl))
    /\ now' = now + 1
    /\ result' = Call("open_position", <<id, o>>, TRUE)
    /\ UNCHANGED <<closed_positions, consecutive_losses, total_realized_pnl,
                   peak_capital, disk>>

OpenPosition(id, o) ==
    IF ~can_open_position(positions, total_realized_pnl, peak_capital,
                          consecutive_losses)[1]
    THEN /\ result' = Call("open_position", <<>>, FALSE)
         /\ UNCHANGED <<positions, closed_positions, consecutive_losses,
                        total_realized_pnl, peak_capital, disk, snapshot, now>>
    ELSE /\ now < MaxTime
         /\ positions' = Put(positions, id, NewPosition(id, o, now))
         /\ snapshot' = Write(snapshot, disk,
                             save_state(positions', consecutive_losses, total_realized_pnl))
         /\ now' = now + 1
         /\ result' = Call("open_position", <<id, o>>, TRUE)
         /\ UNCHANGED <<closed_positions, consecutive_losses, total_realized_pnl,
                        peak_capital, disk>>

UpdatePositionPrice(id, price) ==
    /\ result' = Call("update_position_price", <<>>, "None")
    /\ positions' = IF Has(positions, id)
                    THEN Put(positions, id,
                             update_current_price(Get(positions, id), price))
                    ELSE positions
    /\ UNCHANGED <<closed_positions, consecutive_losses, total_realized_pnl,
                   peak_capital, disk, snapshot, now>>

\* The fraction of the original volume closed at a target level
Fraction30 == Dec(30, 100)
Fraction40 == Dec(40, 100)

LevelFraction(tp_level) == IF tp_level = 2 THEN Fraction40 ELSE Fraction30

\* Variant that takes the fraction of the volume still open
PartialVolumeOfOpen(position, tp_level) ==
    FMul(get_open_volume(position), LevelFraction(tp_level))

PartialVolume(position, tp_level) == FMul(position.volume, LevelFraction(tp_level))

SetClosed(p, tp_level, v) ==
    IF tp_level = 1 THEN [p EXCEPT !.volume_closed_tp1 = v]
    ELSE IF tp_level = 2 THEN [p EXCEPT !.volume_closed_tp2 = v]
    ELSE [p EXCEPT !.volume_closed_tp3 = v]

\* (close_price - entry) * volume for a long, (entry - close_price) * volume for a short
ClosePnl(p, close_price, volume_to_close) ==
    IF p.side = "buy"
    THEN FMul(FSub(close_price, p.entry_price), volume_to_close)
    ELSE FMul(FSub(p.entry_price, close_price), volume_to_close)

\* Variant that closes the position when all three levels have been filled
PartialStatusByLevels(position) ==
    IF /\ ~FIsZero(position.volume_closed_tp1)
       /\ ~FIsZero(position.volume_closed_tp2)
       /\ ~FIsZero(position.volume_closed_tp3)
    THEN "CLOSED" ELSE "PARTIALLY_CLOSED"

\* The status a target fill leaves
PartialStatus(position) ==
    IF FIsZero(get_open_volume(position)) THEN "CLOSED" ELSE "PARTIALLY_CLOSED"

\* Variant that records the position in the history and leaves it in the dict
move_to_closed_keeping(ps, closed, id) ==
    IF Has(ps, id)
    THEN [positions |-> ps, closed_positions |-> Append(closed, Get(ps, id))]
    ELSE [positions |-> ps, closed_positions |-> closed]

move_to_closed(ps, closed, id) ==
    IF Has(ps, id)
    THEN [positions |-> Pop(ps, id), closed_positions |-> Append(closed, Get(ps, id))]
    ELSE [positions |-> ps, closed_positions |-> closed]

\* The bookkeeping every closing operation ends with: the dict and the history
\* it leaves, the counters, the snapshot written and the value returned
Commit(after, losses, pnl_total, ret) ==
    /\ positions' = after.positions
    /\ closed_positions' = after.closed_positions
    /\ consecutive_losses' = losses
    /\ total_realized_pnl' = pnl_total
    /\ snapshot' = Write(snapshot, disk,
                             save_state(positions', consecutive_losses', total_realized_pnl'))
    /\ now' = now + 1
    /\ result' = ret
    /\ UNCHANGED <<peak_capital, disk>>

\* The position after a target fill: the level's volume, the PnL, the status
Filled(position, tp_level, volume_to_close, pnl) ==
    [SetClosed(position, tp_level, volume_to_close) EXCEPT !.realized_pnl = FAdd(@, pnl)]

Stamped(filled) == [filled EXCEPT !.status = PartialStatus(filled)]

\* The dict and the history a target fill leaves
Settled(ps, closed, id, stamped) ==
    IF stamped.status = "CLOSED"
    THEN move_to_closed(Put(ps, id, stamped), closed, id)
    ELSE [positions |-> Put(ps, id, stamped), closed_positions |-> closed]

PartialBooked(id, tp_level, position, volume_to_close, pnl, ret) ==
    Commit(Settled(positions, closed_positions, id,
                   Stamped(Filled(position, tp_level, volume_to_close, pnl))),
           consecutive_losses, FAdd(total_realized_pnl, pnl), ret)

PartialFilled(id, tp_level, close_price, position, volume_to_close) ==
    PartialBooked(id, tp_level, position, volume_to_close,
                  ClosePnl(position, close_price, volume_to_close),
                  Call("close_position_partial", <<id, tp_level, close_price>>,
                       volume_to_close))

ClosePositionPartial(id, tp_level, close_price) ==
    IF ~Has(positions, id) \/ tp_level \notin {1, 2, 3}
    THEN /\ result' = Call("close_position_partial", <<>>, Zero)
         /\ UNCHANGED <<positions, closed_positions, consecutive_losses,
                        total_realized_pnl, peak_capital, disk, snapshot, now>>
    ELSE /\ now < MaxTime
         /\ PartialFilled(id, tp_level, close_price, Get(positions, id),
                          PartialVolume(Get(positions, id), tp_level))

\* Variant that closes the original volume
StopVolumeOriginal(position) == position.volume

StopVolume(position) == get_open_volume(position)

\* Variant that counts a closing event without gain as a loss
StopLossCounterNoGain(losses, pnl) == IF FLe(pnl, Zero) THEN losses + 1 ELSE 0

StopLossCounter(losses, pnl) == IF FLt(pnl, Zero) THEN losses + 1 ELSE 0

\* Variant that leaves the PnL of the close out of the position
StoppedOutUnbooked(position, pnl) == [position EXCEPT !.status = "STOPPED_OUT"]

StoppedOut(position, pnl) ==
    [position EXCEPT !.realized_pnl = FAdd(@, pnl), !.status = "STOPPED_OUT"]

StopBooked(id, position, pnl, ret) ==
    Commit(move_to_closed(Put(positions, id, StoppedOut(position, pnl)),
                          closed_positions, id),
           StopLossCounter(consecutive_losses, pnl),
           FAdd(total_realized_pnl, pnl), ret)

StopFilled(id, close_price, position, volume_to_close) ==
    StopBooked(id, position, ClosePnl(position, close_price, volume_to_close),
               Call("close_position_stop_loss", <<id, close_price>>, volume_to_close))

ClosePositionStopLoss(id, close_price) ==
    IF ~Has(positions, id)
    THEN /\ result' = Call("close_position_stop_loss", <<>>, Zero)
         /\ UNCHANGED <<positions, closed_positions, consecutive_losses,
                        total_realized_pnl, peak_capital, disk, snapshot, now>>
    ELSE /\ now < MaxTime
         /\ StopFilled(id, close_price, Get(positions, id),
                       StopVolume(Get(positions, id)))

\* Variant that does not count a price equal to the stop
check_stop_loss_strict(ps, position_id, current_price) ==
    /\ Has(ps, position_id)
    /\ IF Get(ps, position_id).side = "buy"
       THEN FLt(current_price, Get(ps, position_id).stop_loss)
       ELSE FGt(current_price, Get(ps, position_id).stop_loss)

\* Variant that reports the stop of a position it does not know as crossed
check_stop_loss_of_any(ps, position_id, current_price) ==
    \/ ~Has(ps, position_id)
    \/ IF Get(ps, position_id).side = "buy"
       THEN FLe(current_price, Get(ps, position_id).stop_loss)
       ELSE FGe(current_price, Get(ps, position_id).stop_loss)

check_stop_loss(ps, position_id, current_price) ==
    /\ Has(ps, position_id)
    /\ IF Get(ps, position_id).side = "buy"
       THEN FLe(current_price, Get(ps, position_id).stop_loss)
       ELSE FGe(current_price, Get(ps, position_id).stop_loss)

CheckStopLoss(id, price) ==
    /\ result' = Call("check_stop_loss", <<id, price>>,
                      check_stop_loss(positions, id, price))
    /\ UNCHANGED <<positions, closed_positions, consecutive_losses,
                   total_realized_pnl, peak_capital, disk, snapshot, now>>

\* current_price has reached the target in the direction of the position
Reached(position, target, current_price) ==
    IF position.side = "buy" THEN FGe(current_price, target)
                             ELSE FLe(current_price, target)

\* Variant that tests the nearest target first
take_profit_of_nearest(position, current_price) ==
    CASE Reached(position, position.take_profit_1, current_price)
           /\ position.volume_closed_tp1 = Zero -> <<1, TRUE>>
      [] Reached(position, position.take_profit_2, current_price)
           /\ position.volume_closed_tp2 = Zero -> <<2, TRUE>>
      [] Reached(position, position.take_profit_3, current_price)
           /\ position.volume_closed_tp3 = Zero -> <<3, TRUE>>
      [] OTHER -> <<0, FALSE>>

\* Variant that does not look at the volume already closed
take_profit_of_reached(position, current_price) ==
    IF Reached(position, position.take_profit_3, current_price) THEN <<3, TRUE>>
    ELSE IF Reached(position, position.take_profit_2, current_price) THEN <<2, TRUE>>
    ELSE IF Reached(position, position.take_profit_1, current_price) THEN <<1, TRUE>>
    ELSE <<0, FALSE>>

\* The if/elif chain of check_take_profit on a live position
take_profit_of(position, current_price) ==
    IF Reached(position, position.take_profit_3, current_price)
       /\ position.volume_closed_tp3 = Zero THEN <<3, TRUE>>
    ELSE IF Reached(position, position.take_profit_2, current_price)
            /\ position.volume_closed_tp2 = Zero THEN <<2, TRUE>>
    ELSE IF Reached(position, position.take_profit_1, current_price)
            /\ position.volume_closed_tp1 = Zero THEN <<1, TRUE>>
    ELSE <<0, FALSE>>

\* Variant that answers the nearest reached level of a live position
check_take_profit_nearest(ps, position_id, current_price) ==
    IF ~Has(ps, position_id) THEN <<0, FALSE>>
    ELSE take_profit_of_nearest(Get(ps, position_id), current_price)

check_take_profit(ps, position_id, current_price) ==
    IF ~Has(ps, position_id) THEN <<0, FALSE>>
    ELSE take_profit_of(Get(ps, position_id), current_price)

CheckTakeProfit(id, price) ==
    /\ result' = Call("check_take_profit", <<id, price>>,
                      check_take_profit(positions, id, price))
    /\ UNCHANGED <<positions, closed_positions, consecutive_losses,
                   total_realized_pnl, peak_capital, disk, snapshot, now>>

\* save_state called by the owner of the manager
SaveState ==
    /\ snapshot' = Write(snapshot, disk,
                             save_state(positions, consecutive_losses, total_realized_pnl))
    /\ result' = Call("save_state", <<>>, "None")
    /\ UNCHANGED <<positions, closed_positions, consecutive_losses,
                   total_realized_pnl, peak_capital, disk, now>>

\* RiskManager.__init__ of a new manager while bot_state.json is as the last
\* manager left it
Restart ==
    /\ positions' = load_state(snapshot).positions
    /\ closed_positions' = <<>>
    /\ consecutive_losses' = load_state(snapshot).consecutive_losses
    /\ total_realized_pnl' = load_state(snapshot).total_realized_pnl
    /\ peak_capital' = total_capital
    /\ result' = Call("init", <<>>, TRUE)
    /\ UNCHANGED <<snapshot, disk, now>>

\* The file system changes what it does with the writes that follow
DiskCondition(condition) ==
    /\ disk' = condition
    /\ UNCHANGED <<positions, closed_positions, consecutive_losses,
                   total_realized_pnl, peak_capital, snapshot, now, result>>

\* bot_state.json is changed from outside the manager: the status of entry k
\* is no value of PositionStatus
Damage(k) ==
    /\ snapshot.exists
    /\ snapshot.valid
    /\ k \in 1..Len(snapshot.positions)
    /\ snapshot' = [snapshot EXCEPT !.positions[k].status = <<"str", "UNKNOWN">>]
    /\ UNCHANGED <<positions, closed_positions, consecutive_losses,
                   total_realized_pnl, peak_capital, disk, now, result>>

\* ---- signal generator --------------------------------------------------

rsi_oversold == FromInt(30)

rsi_overbought == FromInt(70)

adx_threshold == FromInt(25)

volume_threshold == Dec(11, 10)

min_confidence == Dec(75, 100)

min_candles == 200

atr_multiplier == FromInt(2)

\* Variant that reads the trend from the two faster averages alone
get_trend_of_fast(indicators) ==
    IF FGt(indicators.ema_12, indicators.ema_50) THEN "UPTREND"
    ELSE IF FLt(indicators.ema_12, indicators.ema_50) THEN "DOWNTREND"
    ELSE "SIDEWAYS"

\* MarketDataProcessor.get_trend
get_trend(indicators) ==
    IF FGt(indicators.ema_12, indicators.ema_50)
       /\ FGt(indicators.ema_50, indicators.ema_200) THEN "UPTREND"
    ELSE IF FLt(indicators.ema_12, indicators.ema_50)
            /\ FLt(indicators.ema_50, indicators.ema_200) THEN "DOWNTREND"
    ELSE "SIDEWAYS"

\* Raised by the evaluation of an attribute TechnicalIndicators does not have
AttributeError == [kind |-> "AttributeError", value |-> FALSE]

Returned(value) == [kind |-> "return", value |-> value]

\* a or b of Python where the evaluation of b raises: b is evaluated only when
\* a is false
OrRaising(a) == IF a THEN Returned(TRUE) ELSE AttributeError

\* (indicators.ema_12 > indicators.ema_50) or (indicators.close > ...):
\* TechnicalIndicators has no attribute close
EmaAligned(indicators, trend) ==
    IF trend = "UPTREND"
    THEN OrRaising(FGt(indicators.ema_12, indicators.ema_50))
    ELSE OrRaising(FLt(indicators.ema_12, indicators.ema_50))

TrendStrong(indicators) ==
    FGt(indicators.adx_14, FSub(adx_threshold, FromInt(5)))

check_trend_confirmation(indicators, trend) ==
    IF trend \notin {"UPTREND", "DOWNTREND"} THEN Returned(FALSE)
    ELSE IF EmaAligned(indicators, trend).kind = "AttributeError" THEN AttributeError
    ELSE Returned(TrendStrong(indicators))

RsiSignal(indicators, signal_type) ==
    IF signal_type = "BUY"
    THEN FLt(indicators.rsi_14, FAdd(rsi_oversold, FromInt(10)))
    ELSE FGt(indicators.rsi_14, FSub(rsi_overbought, FromInt(10)))

\* indicators.macd_histogram > 0 or (indicators.macd_histogram >
\* indicators.macd_histogram_prev): TechnicalIndicators has no attribute
\* macd_histogram_prev
MacdSignal(indicators, signal_type) ==
    IF signal_type = "BUY"
    THEN OrRaising(FGt(indicators.macd_histogram, Zero))
    ELSE OrRaising(FLt(indicators.macd_histogram, Zero))

\* Variant that takes any histogram that is not against the direction
check_momentum_signal_lenient(indicators, signal_type) ==
    Returned(RsiSignal(indicators, signal_type))

\* rsi_signal and macd_signal are both evaluated before the return
check_momentum_signal(indicators, signal_type) ==
    IF signal_type \notin {"BUY", "SELL"} THEN Returned(FALSE)
    ELSE IF MacdSignal(indicators, signal_type).kind = "AttributeError"
    THEN AttributeError
    ELSE Returned(RsiSignal(indicators, signal_type))

BandRange(indicators) == FSub(indicators.bb_upper, indicators.bb_lower)

check_bollinger_bands_signal(indicators, current_price, signal_type) ==
    IF signal_type = "BUY"
    THEN FLt(FSub(current_price, indicators.bb_lower),
             FMul(BandRange(indicators), Dec(2, 10)))
    ELSE IF signal_type = "SELL"
    THEN FLt(FSub(indicators.bb_upper, current_price),
             FMul(BandRange(indicators), Dec(2, 10)))
    ELSE FALSE

check_volume_confirmation(indicators) ==
    FGt(indicators.current_volume, FMul(indicators.volume_ma, volume_threshold))

\* SignalGenerator._calculate_position_size with its default of 0.10
signal_position_size(confidence) == FMul(Dec(10, 100), confidence)

\* confidence_score += weight when the condition holds
Scored(confidence_score, holds, weight) ==
    IF holds THEN FAdd(confidence_score, weight) ELSE confidence_score

NoSignal == [kind |-> "None", signal |-> <<>>]

Raised == [kind |-> "AttributeError", signal |-> <<>>]

\* entry - distance for a BUY, entry + distance for a SELL, and the reverse
Against(signal_type, current_price, distance) ==
    IF signal_type = "BUY" THEN FSub(current_price, distance)
                           ELSE FAdd(current_price, distance)

\* Variant that puts the targets on the side of the stop
FavourOfStop(signal_type, current_price, distance) ==
    IF signal_type = "BUY" THEN FSub(current_price, distance)
                           ELSE FAdd(current_price, distance)

Favour(signal_type, current_price, distance) ==
    IF signal_type = "BUY" THEN FAdd(current_price, distance)
                           ELSE FSub(current_price, distance)

TradingSignal(signal_type, confidence, current_price, atr_14, multiplier) ==
    [kind   |-> "signal",
     signal |-> [signal_type   |-> signal_type,
                 confidence    |-> confidence,
                 entry_price   |-> current_price,
                 stop_loss     |-> Against(signal_type, current_price,
                                           FMul(atr_14, multiplier)),
                 take_profit_1 |-> Favour(signal_type, current_price,
                                          FMul(atr_14, Dec(15, 10))),
                 take_profit_2 |-> Favour(signal_type, current_price,
                                          FMul(atr_14, Dec(25, 10))),
                 take_profit_3 |-> Favour(signal_type, current_price,
                                          FMul(atr_14, FromInt(4))),
                 position_size_percent |-> signal_position_size(confidence)]]

\* The optional conditions and the threshold of _generate_buy_signal and
\* _generate_sell_signal
ScoredSignal(indicators, current_price, multiplier, signal_type, confidence_score) ==
    IF FLt(confidence_score, min_confidence) THEN NoSignal
    ELSE TradingSignal(signal_type, confidence_score, current_price,
                       indicators.atr_14, multiplier)

OptionalScore(indicators, current_price, signal_type) ==
    Scored(Scored(FAdd(FAdd(Zero, Dec(30, 100)), Dec(30, 100)),
                  check_bollinger_bands_signal(indicators, current_price, signal_type),
                  Dec(20, 100)),
           check_volume_confirmation(indicators), Dec(20, 100))

\* _generate_buy_signal for BUY with UPTREND, _generate_sell_signal for SELL
\* with DOWNTREND
generate_side_signal(indicators, current_price, multiplier, signal_type, trend) ==
    IF check_trend_confirmation(indicators, trend).kind = "AttributeError" THEN Raised
    ELSE IF ~check_trend_confirmation(indicators, trend).value THEN NoSignal
    ELSE IF check_momentum_signal(indicators, signal_type).kind = "AttributeError"
    THEN Raised
    ELSE IF ~check_momentum_signal(indicators, signal_type).value THEN NoSignal
    ELSE ScoredSignal(indicators, current_price, multiplier, signal_type,
                      OptionalScore(indicators, current_price, signal_type))

\* The signal is returned when its confidence is at least min_confidence
Passed(outcome) ==
    IF outcome.kind = "signal" /\ FLt(outcome.signal.confidence, min_confidence)
    THEN NoSignal ELSE outcome

\* generate_signal on a window of candles bars whose indicators, when
\* process_ohlcv computes them, are the given ones
generate_signal(candles, indicators, current_price, multiplier) ==
    IF candles < min_candles THEN NoSignal
    ELSE IF get_trend(indicators) = "UPTREND"
    THEN Passed(generate_side_signal(indicators, current_price, multiplier,
                                     "BUY", "UPTREND"))
    ELSE IF get_trend(indicators) = "DOWNTREND"
    THEN Passed(generate_side_signal(indicators, current_price, multiplier,
                                     "SELL", "DOWNTREND"))
    ELSE NoSignal

\* The caller passes the window and the price it holds in result.args
GenerateSignal ==
    /\ result.op = "window"
    /\ result' = Call("generate_signal", result.args,
                      generate_signal(result.args[1], result.args[2],
                                      result.args[3], atr_multiplier))
    /\ UNCHANGED <<positions, closed_positions, consecutive_losses,
                   total_realized_pnl, peak_capital, snapshot, disk, now>>

\* The ids the monitoring loops of the callers pass: those of the live positions
LiveIds == {positions[i].position_id : i \in 1..Len(positions)}

Next ==
    \/ \E op \in Opens : OpenPosition(op[1], op[2]) /\ UNCHANGED <<backtest, kraken>>
    \/ \E id \in LiveIds, price \in UpdatePrices : UpdatePositionPrice(id, price) /\ UNCHANGED <<backtest, kraken>>
    \/ \E id \in LiveIds, tp_level \in Levels, price \in TargetPrices :
           ClosePositionPartial(id, tp_level, price) /\ UNCHANGED <<backtest, kraken>>
    \/ \E id \in LiveIds, price \in StopPrices : ClosePositionStopLoss(id, price) /\ UNCHANGED <<backtest, kraken>>

Spec == Init /\ [][Next]_vars

\* The gate, asked between the operations that move the capital and the counter
NextQuery ==
    \/ CanOpenPosition /\ UNCHANGED <<backtest, kraken>>
    \/ \E op \in Opens : OpenPosition(op[1], op[2]) /\ UNCHANGED <<backtest, kraken>>
    \/ \E id \in LiveIds, price \in UpdatePrices : UpdatePositionPrice(id, price) /\ UNCHANGED <<backtest, kraken>>
    \/ \E id \in LiveIds, price \in StopPrices : ClosePositionStopLoss(id, price) /\ UNCHANGED <<backtest, kraken>>

SpecQuery == Init /\ [][NextQuery]_vars

\* Position sizing, asked between the operations that move the available capital
NextSize ==
    \/ \E in \in SizeInputs : CalculatePositionSize(in) /\ UNCHANGED <<backtest, kraken>>
    \/ \E op \in SizeOpens : OpenPosition(op[1], op[2]) /\ UNCHANGED <<backtest, kraken>>
    \/ \E id \in LiveIds, price \in UpdatePrices : UpdatePositionPrice(id, price) /\ UNCHANGED <<backtest, kraken>>
    \/ \E id \in LiveIds, price \in StopPrices : ClosePositionStopLoss(id, price) /\ UNCHANGED <<backtest, kraken>>

SpecSize == Init /\ [][NextSize]_vars

\* Backtester._execute_signal: the volume is sized first, a signal whose
\* volume is not positive is dropped and the others are opened at the
\* signal's entry with the sized volume
ExecuteSignal(id, signal, confidence) ==
    IF FLe(calculate_position_size(positions, total_realized_pnl,
                                   signal.entry_price, signal.stop_loss,
                                   confidence), Zero)
    THEN /\ result' = Call("execute_signal", <<id>>, "None")
         /\ UNCHANGED <<positions, closed_positions, consecutive_losses,
                        total_realized_pnl, peak_capital, disk, snapshot, now>>
    ELSE OpenPosition(id, [signal EXCEPT !.volume =
             calculate_position_size(positions, total_realized_pnl,
                                     signal.entry_price, signal.stop_loss,
                                     confidence)])

\* <<position_id, signal>>: a long and a short signal, sized when executed
Signals == {<<"p1", Order("buy", 0)>>, <<"p2", Order("sell", 0)>>}

\* Price of a bar of a trading run that gaps upwards
TradePrices == {FromInt(1200)}

\* The trading sequence: size and open, update prices, close at targets,
\* close at stop-loss
NextTrade ==
    \/ \E sig \in Signals : ExecuteSignal(sig[1], sig[2], FromInt(1)) /\ UNCHANGED <<backtest, kraken>>
    \/ \E id \in LiveIds, price \in TradePrices : UpdatePositionPrice(id, price) /\ UNCHANGED <<backtest, kraken>>
    \/ \E id \in LiveIds, tp_level \in Levels, price \in TargetPrices :
           ClosePositionPartial(id, tp_level, price) /\ UNCHANGED <<backtest, kraken>>
    \/ \E id \in LiveIds, price \in StopPrices : ClosePositionStopLoss(id, price) /\ UNCHANGED <<backtest, kraken>>

SpecTrade == Init /\ [][NextTrade]_vars

\* Prices asked of check_stop_loss and check_take_profit: the stops and the
\* targets of the orders, and prices beyond them
CheckPrices == {FromInt(n) : n \in {60, 70, 80, 90, 110, 120, 130, 140}}

\* The checks of the monitoring loop, asked between openings and target closes
NextCheck ==
    \/ \E op \in Opens : OpenPosition(op[1], op[2]) /\ UNCHANGED <<backtest, kraken>>
    \/ \E id \in LiveIds, tp_level \in Levels, price \in TargetPrices :
           ClosePositionPartial(id, tp_level, price) /\ UNCHANGED <<backtest, kraken>>
    \/ \E id \in LiveIds, price \in CheckPrices : CheckStopLoss(id, price) /\ UNCHANGED <<backtest, kraken>>
    \/ \E id \in LiveIds, price \in CheckPrices : CheckTakeProfit(id, price) /\ UNCHANGED <<backtest, kraken>>

SpecCheck == Init /\ [][NextCheck]_vars

\* Ids a caller may pass: those of the orders and one that is never opened
AnyIds == {"p1", "p2", "p9"}

\* The orders of the runs that pass any id
AnyOpens == {<<"p1", Order("buy", 30)>>, <<"p2", Order("sell", 1)>>}

\* The operations that take a position id, called with any id, live or not
NextAnyId ==
    \/ \E op \in AnyOpens : OpenPosition(op[1], op[2]) /\ UNCHANGED <<backtest, kraken>>
    \/ \E id \in AnyIds, price \in UpdatePrices : UpdatePositionPrice(id, price) /\ UNCHANGED <<backtest, kraken>>
    \/ \E id \in AnyIds, price \in TargetPrices : CheckStopLoss(id, price) /\ UNCHANGED <<backtest, kraken>>
    \/ \E id \in AnyIds, price \in TargetPrices : CheckTakeProfit(id, price) /\ UNCHANGED <<backtest, kraken>>
    \/ \E id \in AnyIds, tp_level \in Levels, price \in TargetPrices :
           ClosePositionPartial(id, tp_level, price) /\ UNCHANGED <<backtest, kraken>>
    \/ \E id \in AnyIds, price \in StopPrices : ClosePositionStopLoss(id, price) /\ UNCHANGED <<backtest, kraken>>

SpecAnyId == Init /\ [][NextAnyId]_vars

\* A run in which the state is saved and the manager is restarted at any point
NextRestart ==
    \/ \E op \in AnyOpens : OpenPosition(op[1], op[2]) /\ UNCHANGED <<backtest, kraken>>
    \/ \E id \in LiveIds, price \in UpdatePrices : UpdatePositionPrice(id, price) /\ UNCHANGED <<backtest, kraken>>
    \/ \E id \in LiveIds, tp_level \in Levels, price \in TargetPrices :
           ClosePositionPartial(id, tp_level, price) /\ UNCHANGED <<backtest, kraken>>
    \/ \E id \in LiveIds, price \in StopPrices : ClosePositionStopLoss(id, price) /\ UNCHANGED <<backtest, kraken>>
    \/ SaveState /\ UNCHANGED <<backtest, kraken>>
    \/ Restart /\ UNCHANGED <<backtest, kraken>>

SpecRestart == Init /\ [][NextRestart]_vars

\* A run in which writes of bot_state.json fail, the file is changed from
\* outside and the manager is restarted
NextPersist ==
    \/ \E op \in AnyOpens : OpenPosition(op[1], op[2]) /\ UNCHANGED <<backtest, kraken>>
    \/ \E id \in LiveIds, price \in TargetPrices :
           ClosePositionPartial(id, 1, price) /\ UNCHANGED <<backtest, kraken>>
    \/ \E id \in LiveIds, price \in StopPrices : ClosePositionStopLoss(id, price) /\ UNCHANGED <<backtest, kraken>>
    \/ \E condition \in DiskConditions : DiskCondition(condition) /\ UNCHANGED <<backtest, kraken>>
    \/ \E k \in 1..max_positions : Damage(k) /\ UNCHANGED <<backtest, kraken>>
    \/ Restart /\ UNCHANGED <<backtest, kraken>>

SpecPersist == Init /\ [][NextPersist]_vars

\* <<ema_12, ema_50, ema_200>>: rising, falling and two that are neither
EmaInputs == {<<3, 2, 1>>, <<1, 2, 3>>, <<2, 2, 1>>, <<2, 3, 1>>}

\* Indicators on both sides of every threshold generate_signal compares with
IndicatorInputs ==
    {[ema_12 |-> FromInt(100 + ema[1]), ema_50 |-> FromInt(100 + ema[2]),
      ema_200 |-> FromInt(100 + ema[3]), rsi_14 |-> FromInt(rsi),
      macd_histogram |-> FromInt(histogram), bb_upper |-> FromInt(110),
      bb_lower |-> FromInt(100), atr_14 |-> FromInt(atr),
      adx_14 |-> FromInt(adx), volume_ma |-> FromInt(100),
      current_volume |-> FromInt(volume)] :
        ema \in EmaInputs, rsi \in {39, 40, 60, 61}, histogram \in {-1, 0, 1},
        atr \in {0, 1}, adx \in {20, 21}, volume \in {110, 111}}

\* Prices inside and outside the fifth of the band next to each side
SignalPrices == {FromInt(101), FromInt(102), FromInt(108), FromInt(109)}

\* Lengths of the window on both sides of min_candles
WindowLengths == {min_candles - 1, min_candles}

\* A signal generator and a fresh manager, and a caller that holds a window of
\* candles bars with the indicators process_ohlcv computes from it and a price
InitSignal ==
    /\ backtest = NoBacktester
    /\ kraken = NoClient
    /\ positions = <<>>
    /\ closed_positions = <<>>
    /\ consecutive_losses = 0
    /\ total_realized_pnl = Zero
    /\ peak_capital = total_capital
    /\ snapshot = NoSnapshot
    /\ disk = "ok"
    /\ now = 0
    /\ result \in {Call("window", <<candles, indicators, current_price>>, "None") :
                      candles \in WindowLengths, indicators \in IndicatorInputs,
                      current_price \in SignalPrices}

NextSignal == GenerateSignal /\ UNCHANGED <<backtest, kraken>>

SpecSignal == InitSignal /\ [][NextSignal]_vars

(***************************************************************************)
(* TechnicalAnalysis.calculate_rsi                                         *)
(***************************************************************************)
\* An element of a numpy array of floats: nan, or a number
NaN == [nan |-> TRUE, value |-> Zero]

Number(x) == [nan |-> FALSE, value |-> x]

\* numpy.diff
Deltas(data) == [k \in 1..(Len(data) - 1) |-> FSub(data[k + 1], data[k])]

\* deltas[:period+1]
Seed(data, period) ==
    SubSeq(Deltas(data), 1,
           IF period + 1 < Len(data) - 1 THEN period + 1 ELSE Len(data) - 1)

Gains(seed) == SelectSeq(seed, LAMBDA delta : FGe(delta, Zero))

Losses(seed) == SelectSeq(seed, LAMBDA delta : FLt(delta, Zero))

SeedUp(data, period) == FDiv(FSum(Gains(Seed(data, period))), FromInt(period))

SeedDown(data, period) ==
    FDiv(FNeg(FSum(Losses(Seed(data, period)))), FromInt(period))

\* rs = up / down if down != 0 else 0
RelativeStrength(up, down) ==
    IF ~FIsZero(down) THEN FDiv(up, down) ELSE Zero

\* 100.0 - 100.0 / (1.0 + rs)
RsiOf(up, down) ==
    FSub(FromInt(100),
         FDiv(FromInt(100), FAdd(FromInt(1), RelativeStrength(up, down))))

\* (average * (period - 1) + value) / period
Smooth(average, value, period) ==
    FDiv(FAdd(FMul(average, FromInt(period - 1)), value), FromInt(period))

Upval(delta) == IF FGt(delta, Zero) THEN delta ELSE Zero

Downval(delta) == IF FGt(delta, Zero) THEN Zero ELSE FNeg(delta)

\* The loop over i = period .. len(data) - 1, which is element i + 1 here
RECURSIVE RsiLoop(_, _, _, _, _, _)
RECURSIVE RsiAt(_, _, _, _, _, _)
RsiLoop(data, period, i, up, down, rsi) ==
    IF i > Len(data) THEN rsi
    ELSE RsiAt(data, period, i,
               Smooth(up, Upval(Deltas(data)[i - 1]), period),
               Smooth(down, Downval(Deltas(data)[i - 1]), period), rsi)

RsiAt(data, period, i, up, down, rsi) ==
    RsiLoop(data, period, i + 1, up, down,
            Append(rsi, Number(RsiOf(up, down))))

calculate_rsi(data, period) ==
    IF Len(data) < period + 1 THEN [k \in 1..Len(data) |-> NaN]
    ELSE RsiLoop(data, period, period + 1,
                 SeedUp(data, period), SeedDown(data, period),
                 [k \in 1..period |->
                     Number(RsiOf(SeedUp(data, period), SeedDown(data, period)))])

\* The caller passes the series and the period it holds in result.args
CalculateRsi ==
    /\ result.op = "series"
    /\ result' = Call("calculate_rsi", result.args,
                      calculate_rsi(result.args[1], result.args[2]))
    /\ UNCHANGED <<positions, closed_positions, consecutive_losses,
                   total_realized_pnl, peak_capital, snapshot, disk, now>>

\* The longest series of which every arrangement of the prices is drawn
MaxSeries == 5

SeriesPrices == {FromInt(100), FromInt(101), FromInt(103)}

ShortSeries ==
    UNION {[1..n -> SeriesPrices] : n \in 2..MaxSeries}

\* 100, 101, .. and 150, 149, .., with 14, 15, 16 and 51 prices
LongSeries ==
    {[k \in 1..n |-> FromInt(100 + k - 1)] : n \in {14, 15, 16, 51}} \cup
    {[k \in 1..n |-> FromInt(150 - k + 1)] : n \in {14, 15, 16, 51}}

RsiInputs ==
    {<<data, period>> : data \in ShortSeries, period \in {2, 3}} \cup
    {<<data, 14>> : data \in LongSeries}

\* A caller that holds a series of prices and a period
InitRsi ==
    /\ backtest = NoBacktester
    /\ kraken = NoClient
    /\ positions = <<>>
    /\ closed_positions = <<>>
    /\ consecutive_losses = 0
    /\ total_realized_pnl = Zero
    /\ peak_capital = total_capital
    /\ snapshot = NoSnapshot
    /\ disk = "ok"
    /\ now = 0
    /\ result \in {Call("series", input, "None") : input \in RsiInputs}

NextRsi == CalculateRsi /\ UNCHANGED <<backtest, kraken>>

SpecRsi == InitRsi /\ [][NextRsi]_vars

(***************************************************************************)
(* Backtester                                                              *)
(***************************************************************************)
\* A bar is [timestamp, close, shape]: shape stands for the rest of the
\* candle, and the indicators of a window are those its bars lead to, told
\* here by the shape of its last bar
lookback_period == 200

commission == Dec(5, 10000)

\* Indicators of a confirmed uptrend near the lower band with volume, of the
\* same uptrend with a histogram that is not positive, and of no trend
IndicatorsOf(shape) ==
    [ema_12 |-> FromInt(IF shape = "flat" THEN 102 ELSE 103),
     ema_50 |-> FromInt(102), ema_200 |-> FromInt(101),
     rsi_14 |-> FromInt(39),
     macd_histogram |-> FromInt(IF shape = "stalled" THEN 0 ELSE 1),
     bb_upper |-> FromInt(110), bb_lower |-> FromInt(100),
     atr_14 |-> FromInt(1), adx_14 |-> FromInt(21),
     volume_ma |-> FromInt(100), current_volume |-> FromInt(111)]

process_ohlcv(window) == IndicatorsOf(window[Len(window)].shape)

\* ohlcv_data[i-lookback_period:i] with the variant that reaches bar i; bar i
\* of the code is element i + 1 here
WindowWithCurrent(ohlcv_data, i) ==
    SubSeq(ohlcv_data, i - lookback_period + 2, i + 1)

Window(ohlcv_data, i) == SubSeq(ohlcv_data, i - lookback_period + 1, i)

CurrentPrice(b) == b.ohlcv_data[b.i + 1].close

Timestamp(b) == b.ohlcv_data[b.i + 1].timestamp

\* Timestamps are counted in parts of a second, of which int() drops the rest
TicksPerSecond == 2

\* f"{pair}_{int(timestamp)}"
position_id_of(pair, timestamp) == <<pair, timestamp \div TicksPerSecond>>

\* What _execute_signal passes to open_position, before the volume is sized
OrderOf(signal) ==
    [side          |-> IF signal.signal_type = "BUY" THEN "buy" ELSE "sell",
     entry_price   |-> signal.entry_price,
     volume        |-> Zero,
     stop_loss     |-> signal.stop_loss,
     take_profit_1 |-> signal.take_profit_1,
     take_profit_2 |-> signal.take_profit_2,
     take_profit_3 |-> signal.take_profit_3]

\* list(self.risk_manager.positions.items()) without the other pairs
PairIds(ps, pair) ==
    [k \in 1..Len(SelectSeq(ps, LAMBDA p : p.pair = pair)) |->
        SelectSeq(ps, LAMBDA p : p.pair = pair)[k].position_id]

\* The report, without the figures that need a power or a deviation
\* (annual_return, sharpe_ratio) and those derived from the drawdown
BacktestReport(b, stats) ==
    [kind               |-> "report",
     initial_capital    |-> total_capital,
     final_capital      |-> b.equity_curve[Len(b.equity_curve)],
     total_return       |-> FDiv(FSub(b.equity_curve[Len(b.equity_curve)],
                                      total_capital), total_capital),
     total_return_pnl   |-> stats.total_pnl,
     total_commission   |-> b.total_commission,
     trading_statistics |-> stats,
     equity_curve       |-> b.equity_curve,
     timestamps         |-> b.timestamps]

EmptyReport == [kind |-> "empty"]

Aborted == [kind |-> "AttributeError"]

\* What the caller keeps of a run that has ended
Run(b, report) ==
    [ohlcv_data |-> b.ohlcv_data, opened |-> b.opened, report |-> report]

Ended(b, pc, report) ==
    [b EXCEPT !.pc = pc, !.runs = Append(@, Run(b, report))]

\* Backtester(): a new Backtester with a new RiskManager, which reads
\* bot_state.json as the last manager left it
MaxRuns == 2

NewBacktester ==
    /\ backtest.pc \in {"none", "done", "aborted"}
    /\ Len(backtest.runs) < MaxRuns
    /\ Restart
    /\ backtest' = Backtester(backtest.runs)

\* run_backtest up to its loop
RunBacktest(ohlcv_data) ==
    /\ backtest.pc = "ready"
    /\ IF Len(ohlcv_data) < lookback_period
       THEN /\ backtest' = Ended([backtest EXCEPT !.ohlcv_data = ohlcv_data],
                                 "done", EmptyReport)
            /\ result' = Call("run_backtest", <<>>, EmptyReport)
       ELSE /\ backtest' = [backtest EXCEPT
                               !.ohlcv_data = ohlcv_data,
                               !.i = lookback_period,
                               !.pc = IF lookback_period < Len(ohlcv_data)
                                      THEN "generate" ELSE "report"]
            /\ result' = Call("run_backtest", <<>>, "None")
    /\ UNCHANGED <<positions, closed_positions, consecutive_losses,
                   total_realized_pnl, peak_capital, snapshot, disk, now>>

\* Where the loop goes with what generate_signal returned
AfterSignal(b, outcome, ps) ==
    IF outcome.kind = "AttributeError" THEN Ended(b, "aborted", Aborted)
    ELSE IF outcome.kind = "signal"
    THEN [b EXCEPT !.pc = "execute", !.signal = outcome.signal]
    ELSE [b EXCEPT !.pc = "monitor", !.pending = PairIds(ps, Pair)]

BacktestSignal ==
    /\ backtest.pc = "generate"
    /\ result' = Call("generate_signal",
                      <<Window(backtest.ohlcv_data, backtest.i),
                        CurrentPrice(backtest)>>,
                      generate_signal(Len(Window(backtest.ohlcv_data, backtest.i)),
                                      process_ohlcv(Window(backtest.ohlcv_data,
                                                           backtest.i)),
                                      CurrentPrice(backtest), atr_multiplier))
    /\ backtest' = AfterSignal(backtest, result'.ret, positions)
    /\ UNCHANGED <<positions, closed_positions, consecutive_losses,
                   total_realized_pnl, peak_capital, snapshot, disk, now>>

Success(call) == call.op = "open_position" /\ call.ret

\* The Backtester after _execute_signal has sized volume and called the manager
Executed(b, volume, call, ps) ==
    [b EXCEPT
        !.pc = "monitor",
        !.pending = PairIds(ps, Pair),
        !.total_commission =
            IF FLe(volume, Zero) THEN @
            ELSE FAdd(@, FMul(FMul(b.signal.entry_price, volume), commission)),
        !.trades_executed = IF Success(call) THEN @ + 1 ELSE @,
        !.opened = IF Success(call) THEN Append(@, call.args) ELSE @]

BacktestExecute ==
    /\ backtest.pc = "execute"
    /\ ExecuteSignal(position_id_of(Pair, Timestamp(backtest)),
                     OrderOf(backtest.signal), backtest.signal.confidence)
    /\ backtest' = Executed(backtest,
                            calculate_position_size(positions, total_realized_pnl,
                                                    backtest.signal.entry_price,
                                                    backtest.signal.stop_loss,
                                                    backtest.signal.confidence),
                            result', positions')

\* _monitor_positions on the next position of its list: the price update
MonitorUpdate ==
    /\ backtest.pc = "monitor"
    /\ backtest.pending # <<>>
    /\ UpdatePositionPrice(Head(backtest.pending), CurrentPrice(backtest))
    /\ backtest' = [backtest EXCEPT !.pc = "stop"]

\* the stop-loss check and, if it is hit, the close
MonitorStop ==
    /\ backtest.pc = "stop"
    /\ IF check_stop_loss(positions, Head(backtest.pending), CurrentPrice(backtest))
       THEN ClosePositionStopLoss(Head(backtest.pending), CurrentPrice(backtest))
       ELSE CheckStopLoss(Head(backtest.pending), CurrentPrice(backtest))
    /\ backtest' = [backtest EXCEPT !.pc = "take"]

\* the take-profit check and, if a level is reached, the partial close
MonitorTake ==
    /\ backtest.pc = "take"
    /\ IF check_take_profit(positions, Head(backtest.pending),
                            CurrentPrice(backtest))[2]
       THEN ClosePositionPartial(Head(backtest.pending),
                                 check_take_profit(positions, Head(backtest.pending),
                                                   CurrentPrice(backtest))[1],
                                 CurrentPrice(backtest))
       ELSE CheckTakeProfit(Head(backtest.pending), CurrentPrice(backtest))
    /\ backtest' = [backtest EXCEPT !.pc = "monitor", !.pending = Tail(@)]

\* The equity of the bar, and the next bar or the end of the loop
RecordEquity ==
    /\ backtest.pc = "monitor"
    /\ backtest.pending = <<>>
    /\ result' = Call("get_current_capital", <<>>,
                      get_current_capital(positions, total_realized_pnl))
    /\ backtest' = [backtest EXCEPT
                       !.equity_curve = Append(@, result'.ret),
                       !.timestamps = Append(@, Timestamp(backtest)),
                       !.i = @ + 1,
                       !.pc = IF backtest.i + 1 < Len(backtest.ohlcv_data)
                              THEN "generate" ELSE "report"]
    /\ UNCHANGED <<positions, closed_positions, consecutive_losses,
                   total_realized_pnl, peak_capital, snapshot, disk, now>>

\* _generate_backtest_report, returned by run_backtest
GenerateBacktestReport ==
    /\ backtest.pc = "report"
    /\ result' = Call("run_backtest", <<>>,
                      BacktestReport(backtest,
                                     get_statistics(positions, closed_positions,
                                                    consecutive_losses,
                                                    total_realized_pnl,
                                                    peak_capital)))
    /\ backtest' = Ended(backtest, "done", result'.ret)
    /\ UNCHANGED <<positions, closed_positions, consecutive_losses,
                   total_realized_pnl, peak_capital, snapshot, disk, now>>

\* The most bars a series has after its first lookback_period
MaxBars == 2

Warmup == [timestamp |-> 0, close |-> FromInt(102), shape |-> "flat"]

\* A bar that sets up a signal, one that stops a long out, one at its target
LaterBars ==
    {[timestamp |-> 0, close |-> FromInt(102), shape |-> "rising"],
     [timestamp |-> 0, close |-> FromInt(99), shape |-> "flat"],
     [timestamp |-> 0, close |-> FromInt(104), shape |-> "flat"]}

\* The bars in their order, each step ticks after the one before
Stamp(bars, step) ==
    [k \in 1..Len(bars) |-> [bars[k] EXCEPT !.timestamp = (k - 1) * step]]

\* Series of bars a second apart and of bars half a second apart
BarSeries ==
    {Stamp([k \in 1..(lookback_period - 1) |-> Warmup], 2)} \cup
    {Stamp([k \in 1..(lookback_period - 1) |-> Warmup]
           \o <<[Warmup EXCEPT !.shape = shape]>> \o later, step) :
        shape \in {"rising", "stalled", "flat"},
        later \in UNION {[1..n -> LaterBars] : n \in 0..MaxBars},
        step \in {1, 2}}

NextBacktest ==
    \/ NewBacktester /\ UNCHANGED kraken
    \/ \E ohlcv_data \in BarSeries : RunBacktest(ohlcv_data) /\ UNCHANGED kraken
    \/ BacktestSignal /\ UNCHANGED kraken
    \/ BacktestExecute /\ UNCHANGED kraken
    \/ MonitorUpdate /\ UNCHANGED kraken
    \/ MonitorStop /\ UNCHANGED kraken
    \/ MonitorTake /\ UNCHANGED kraken
    \/ RecordEquity /\ UNCHANGED kraken
    \/ GenerateBacktestReport /\ UNCHANGED kraken

SpecBacktest == Init /\ [][NextBacktest]_vars

\* The caller opens under ids that no live or closed position has
FreshId(id) == ~Has(positions, id) /\ ~Has(closed_positions, id)

NextFresh ==
    \/ \E op \in Opens : FreshId(op[1]) /\ OpenPosition(op[1], op[2]) /\ UNCHANGED <<backtest, kraken>>
    \/ \E id \in LiveIds, price \in UpdatePrices : UpdatePositionPrice(id, price) /\ UNCHANGED <<backtest, kraken>>
    \/ \E id \in LiveIds, tp_level \in Levels, price \in TargetPrices :
           ClosePositionPartial(id, tp_level, price) /\ UNCHANGED <<backtest, kraken>>
    \/ \E id \in LiveIds, price \in StopPrices : ClosePositionStopLoss(id, price) /\ UNCHANGED <<backtest, kraken>>

SpecFresh == Init /\ [][NextFresh]_vars

\* bot_state.json as a manager leaves it that has closed one short of volume 1
\* at stop-loss for a loss of 10
OneLoss == save_state(<<>>, 1, FromInt(-10))

\* A manager constructed over that file
InitResumed ==
    /\ backtest = NoBacktester
    /\ kraken = NoClient
    /\ positions = load_state(OneLoss).positions
    /\ closed_positions = <<>>
    /\ consecutive_losses = load_state(OneLoss).consecutive_losses
    /\ total_realized_pnl = load_state(OneLoss).total_realized_pnl
    /\ peak_capital = total_capital
    /\ snapshot = OneLoss
    /\ disk = "ok"
    /\ now = 0
    /\ result = Call("init", <<>>, TRUE)

NextResumed ==
    \/ CanOpenPosition /\ UNCHANGED <<backtest, kraken>>
    \/ \E op \in Opens : OpenPosition(op[1], op[2]) /\ UNCHANGED <<backtest, kraken>>
    \/ \E id \in LiveIds, price \in UpdatePrices : UpdatePositionPrice(id, price) /\ UNCHANGED <<backtest, kraken>>
    \/ \E id \in LiveIds, tp_level \in Levels, price \in TargetPrices :
           ClosePositionPartial(id, tp_level, price) /\ UNCHANGED <<backtest, kraken>>
    \/ \E id \in LiveIds, price \in StopPrices : ClosePositionStopLoss(id, price) /\ UNCHANGED <<backtest, kraken>>

SpecResumed == InitResumed /\ [][NextResumed]_vars

(***************************************************************************)
(* Position objects.  Every successful open_position reads a later clock,  *)
(* so entry_time names the object through its life.                        *)
(***************************************************************************)
Objects(ps) == {ps[i].entry_time : i \in 1..Len(ps)}

Object(ps, t) == ps[CHOOSE i \in 1..Len(ps) : ps[i].entry_time = t]

Everything(live, closed) == live \o closed

Live == {"OPEN", "PARTIALLY_CLOSED"}

Terminal == {"CLOSED", "STOPPED_OUT"}

\* The step is a call of op that saved the state
Saved(op) == now' # now /\ result'.op = op

SameOutcome(p, q) ==
    /\ q.status = p.status
    /\ q.volume_closed_tp1 = p.volume_closed_tp1
    /\ q.volume_closed_tp2 = p.volume_closed_tp2
    /\ q.volume_closed_tp3 = p.volume_closed_tp3
    /\ q.realized_pnl = p.realized_pnl

\* The steps of the lifecycle as the specification lists them: p before, q after
ListedStep(p, q) ==
    \/ /\ p.status \in Terminal
       /\ SameOutcome(p, q)
    \/ /\ p.status \in Live
       /\ q.status = p.status
       /\ p.status = "OPEN" => SameOutcome(p, q)
    \/ /\ p.status = "OPEN"
       /\ q.status = "PARTIALLY_CLOSED"
       /\ Saved("close_position_partial")
       /\ ~FIsZero(get_open_volume(q))
    \/ /\ p.status = "PARTIALLY_CLOSED"
       /\ q.status = "CLOSED"
       /\ Saved("close_position_partial")
       /\ FIsZero(get_open_volume(q))
    \/ /\ p.status \in Live
       /\ q.status = "STOPPED_OUT"
       /\ Saved("close_position_stop_loss")

CreatedOpen ==
    \A t \in Objects(Everything(positions', closed_positions'))
               \ Objects(Everything(positions, closed_positions)) :
        /\ t \in Objects(positions')
        /\ Object(positions', t).status = "OPEN"
        /\ Saved("open_position")
        /\ result'.ret = TRUE

Lifecycle(Step(_, _)) ==
    /\ CreatedOpen
    /\ \A t \in Objects(Everything(positions, closed_positions))
                  \cap Objects(Everything(positions', closed_positions')) :
           Step(Object(Everything(positions, closed_positions), t),
                Object(Everything(positions', closed_positions'), t))

ZeroVolumeStep(p, q) ==
    /\ p.status = "OPEN"
    /\ q.status = "CLOSED"
    /\ Saved("close_position_partial")
    /\ FIsZero(p.volume)
    /\ FIsZero(get_open_volume(q))

AmendedStep(p, q) == ListedStep(p, q) \/ ZeroVolumeStep(p, q)

StatusPlaces ==
    /\ \A i \in 1..Len(positions) : positions[i].status \in Live
    /\ \A i \in 1..Len(closed_positions) : closed_positions[i].status \in Terminal

\* A position that was live and is terminal after the step has left the dict
\* and is the entry the step appended to the history
MovedWhenTerminal ==
    \A t \in Objects(positions) \cap Objects(Everything(positions', closed_positions')) :
        Object(Everything(positions', closed_positions'), t).status \in Terminal
            => /\ t \notin Objects(positions')
               /\ closed_positions' =
                      Append(closed_positions, Object(closed_positions', t))

\* C2: in every reachable state every live position is OPEN or
\* PARTIALLY_CLOSED and every position of the closed history is CLOSED or
\* STOPPED_OUT; the operation that gives a position a terminal status removes
\* it from the live set and appends it to the history.
C2_LiveAndClosed == []StatusPlaces /\ [][MovedWhenTerminal]_vars

\* C2 witness: a position has been stopped out and moved to the history while
\* a partially closed position stays live.
C2_Witness ==
    /\ \E i \in 1..Len(positions) : positions[i].status = "PARTIALLY_CLOSED"
    /\ \E i \in 1..Len(closed_positions) : closed_positions[i].status = "STOPPED_OUT"

(***************************************************************************)
(* C3: the three target fills.                                             *)
(***************************************************************************)
AllFilled(p) ==
    /\ ~FIsZero(p.volume_closed_tp1)
    /\ ~FIsZero(p.volume_closed_tp2)
    /\ ~FIsZero(p.volume_closed_tp3)

ClosedSum(p) == FSum(<<p.volume_closed_tp1, p.volume_closed_tp2, p.volume_closed_tp3>>)

\* C3: a position with positive volume is live and PARTIALLY_CLOSED only
\* while at most two levels have been filled; it is CLOSED exactly when the
\* three levels have been filled, and then the three closed volumes sum to
\* the original volume.
C3_ThreeFillsClose ==
    /\ \A i \in 1..Len(positions) :
           FGt(positions[i].volume, Zero) => ~AllFilled(positions[i])
    /\ \A i \in 1..Len(closed_positions) :
           (FGt(closed_positions[i].volume, Zero)
                /\ closed_positions[i].status = "CLOSED")
               => /\ AllFilled(closed_positions[i])
                  /\ ClosedSum(closed_positions[i]) = closed_positions[i].volume

(***************************************************************************)
(* C4, C5, C6: what a closing call returns and books.                      *)
(***************************************************************************)
\* The fraction of the original volume the specification gives each level
ThirtyPercent == Dec(30, 100)
FortyPercent == Dec(40, 100)

Share(level) == IF level = 2 THEN FortyPercent ELSE ThirtyPercent

\* (price - entry) x slice for a long, (entry - price) x slice for a short
SlicePnl(p, price, slice) ==
    IF p.side = "buy"
    THEN FMul(FSub(price, p.entry_price), slice)
    ELSE FMul(FSub(p.entry_price, price), slice)

\* The position id names after the step: in the dict, or last in the history
After(id) ==
    IF Has(positions', id)
    THEN Get(positions', id)
    ELSE closed_positions'[Len(closed_positions')]

PartialBooks(id, p, q, slice, pnl) ==
    /\ result'.ret = slice
    /\ q.realized_pnl = FAdd(p.realized_pnl, pnl)
    /\ total_realized_pnl' = FAdd(total_realized_pnl, pnl)
    /\ q.entry_time = p.entry_time
    /\ ~FIsZero(get_open_volume(q)) => Has(positions', id)

PartialReturns(id, price, p, slice) ==
    PartialBooks(id, p, After(id), slice, SlicePnl(p, price, slice))

PartialCloseStep ==
    Saved("close_position_partial") =>
        /\ Has(positions, result'.args[1])
        /\ result'.args[2] \in {1, 2, 3}
        /\ PartialReturns(result'.args[1], result'.args[3],
                          Get(positions, result'.args[1]),
                          FMul(Get(positions, result'.args[1]).volume,
                               Share(result'.args[2])))

\* C4: close_position_partial on a live position at level 1, 2 or 3 returns
\* 30%, 40% or 30% of the original volume whatever was closed before, adds
\* (price - entry) x slice for a long and (entry - price) x slice for a short
\* to the position's and to the manager's realized PnL, and leaves the
\* position live when volume remains open.
C4_PartialClose == [][PartialCloseStep]_vars

\* C4 witness: level 2 has been filled on a position whose level 1 was filled
\* before, and the position is still live.
C4_Witness ==
    /\ result.op = "close_position_partial"
    /\ Len(result.args) = 3
    /\ result.args[2] = 2
    /\ ~FIsZero(result.ret)
    /\ Has(positions, result.args[1])
    /\ ~FIsZero(Get(positions, result.args[1]).volume_closed_tp1)

StopBooks(id, p, q, residual, pnl) ==
    /\ result'.ret = residual
    /\ ~Has(positions', id)
    /\ closed_positions' = Append(closed_positions, q)
    /\ q = [p EXCEPT !.status = "STOPPED_OUT",
                     !.realized_pnl = FAdd(p.realized_pnl, pnl)]
    /\ total_realized_pnl' = FAdd(total_realized_pnl, pnl)

StopReturns(id, price, p, residual) ==
    StopBooks(id, p, After(id), residual, SlicePnl(p, price, residual))

StopLossStep ==
    Saved("close_position_stop_loss") =>
        /\ Has(positions, result'.args[1])
        /\ Get(positions, result'.args[1]).status \in Live
        /\ StopReturns(result'.args[1], result'.args[2],
                       Get(positions, result'.args[1]),
                       get_open_volume(Get(positions, result'.args[1])))

\* C5: close_position_stop_loss on a live position, OPEN or PARTIALLY_CLOSED,
\* returns the volume still open (original minus the volumes closed at
\* targets), realizes PnL on that volume only, sets STOPPED_OUT and moves the
\* position to the closed history.
C5_StopLossClose == [][StopLossStep]_vars

\* C5 witness: a position with a filled target has been stopped out for its
\* remaining volume.
C5_Witness ==
    /\ result.op = "close_position_stop_loss"
    /\ Len(result.args) = 2
    /\ Len(closed_positions) > 0
    /\ closed_positions[Len(closed_positions)].status = "STOPPED_OUT"
    /\ ~FIsZero(closed_positions[Len(closed_positions)].volume_closed_tp1)
    /\ ~FIsZero(result.ret)
    /\ result.ret # closed_positions[Len(closed_positions)].volume

\* The PnL of the closing event of a stop-loss step
StopPnl(p, price) == SlicePnl(p, price, get_open_volume(p))

CounterStep ==
    consecutive_losses' =
        IF Saved("close_position_stop_loss")
        THEN IF FLt(StopPnl(Get(positions, result'.args[1]), result'.args[2]), Zero)
             THEN consecutive_losses + 1
             ELSE 0
        ELSE consecutive_losses

\* C6: a stop-loss close adds 1 to the consecutive-loss counter when the PnL
\* of that closing event is negative and resets it to 0 otherwise; no other
\* operation changes the counter.
C6_LossCounter == [][CounterStep]_vars

\* C6 witness: a losing stop-loss close was followed by one without loss, which
\* reset the counter.
C6_Witness ==
    /\ result.op = "close_position_stop_loss"
    /\ consecutive_losses = 0
    /\ Len(closed_positions) >= 2
    /\ closed_positions[Len(closed_positions) - 1].status = "STOPPED_OUT"
    /\ FLt(closed_positions[Len(closed_positions) - 1].realized_pnl, Zero)
    /\ closed_positions[Len(closed_positions)].status = "STOPPED_OUT"
    /\ FGe(closed_positions[Len(closed_positions)].realized_pnl, Zero)

(***************************************************************************)
(* C7, C8, C9: the gate.                                                   *)
(***************************************************************************)
\* The three reasons for a denial, in the current state
Denied ==
    \/ Len(positions) >= max_positions
    \/ FGt(get_drawdown(positions, total_realized_pnl, peak_capital), max_drawdown)
    \/ consecutive_losses >= max_consecutive_losses /\ pause_after_max_losses

Fresh ==
    /\ positions = <<>>
    /\ closed_positions = <<>>
    /\ consecutive_losses = 0
    /\ total_realized_pnl = Zero

\* C7: can_open_position returns (false, reason) exactly when the live
\* positions are at least max_positions, or the drawdown is strictly above
\* max_drawdown, or the consecutive losses are at least the limit with
\* pause-on-loss enabled; otherwise (true, OK), as for a fresh manager.
C7_Gate ==
    result.op = "can_open_position" =>
        /\ result.ret[1] = ~Denied
        /\ ~Denied => result.ret = <<TRUE, "OK">>
        /\ Denied => result.ret[2] # "OK"
        /\ Fresh => result.ret[1]

\* C7 witness: the gate has allowed an opening at a drawdown equal to
\* max_drawdown.
C7_Witness ==
    /\ result.op = "can_open_position"
    /\ result.ret[1]
    /\ get_drawdown(positions, total_realized_pnl, peak_capital) = max_drawdown

Opened(q, id, o) ==
    /\ q.position_id = id
    /\ q.status = "OPEN"
    /\ FIsZero(q.volume_closed_tp1)
    /\ FIsZero(q.volume_closed_tp2)
    /\ FIsZero(q.volume_closed_tp3)
    /\ FIsZero(q.realized_pnl)
    /\ q.side = o.side
    /\ q.entry_price = o.entry_price
    /\ q.volume = o.volume
    /\ q.stop_loss = o.stop_loss

OpenStep ==
    result'.op = "open_position" =>
        IF Denied
        THEN /\ result'.ret = FALSE
             /\ UNCHANGED <<positions, closed_positions, consecutive_losses,
                            total_realized_pnl, snapshot>>
        ELSE /\ result'.ret = TRUE
             /\ Len(result'.args) = 2
             /\ Has(positions', result'.args[1])
             /\ Opened(Get(positions', result'.args[1]), result'.args[1],
                       result'.args[2])

\* C8: open_position returns true and puts an OPEN position with zero closed
\* volumes and zero realized PnL under the id exactly when can_open_position
\* allows it at the call; when it returns false the live set, the history,
\* the counters and the snapshot are unchanged.
C8_OpenPosition == [][OpenStep]_vars

\* C8 witness: an opening has been refused for the drawdown or the losses,
\* with room left in the live set and a snapshot on file.
C8_Witness ==
    /\ result.op = "open_position"
    /\ result.ret = FALSE
    /\ Len(positions) < max_positions
    /\ snapshot.exists

FullStep ==
    (Len(positions) = max_positions /\ result'.op = "open_position") =>
        /\ result'.ret = FALSE
        /\ positions' = positions

\* C9: open_position fails whenever the live positions number max_positions,
\* and the live positions never number more than max_positions.
C9_MaxPositions == [](Len(positions) <= max_positions) /\ [][FullStep]_vars

\* C9 witness: an opening has been refused with max_positions positions live.
C9_Witness ==
    /\ result.op = "open_position"
    /\ result.ret = FALSE
    /\ Len(positions) = max_positions

(***************************************************************************)
(* C10: the notional of the volume calculate_position_size returns.        *)
(***************************************************************************)
Notional(volume, entry_price) == FMul(volume, entry_price)

MaxNotional == FMul(max_position_size, total_capital)

\* C10: for entry > 0 and entry # stop the notional of the returned volume
\* exceeds neither max_position_size x total_capital nor the available
\* capital.
C10_NotionalWithinLimits ==
    (/\ result.op = "calculate_position_size"
     /\ FGt(result.args[1], Zero)
     /\ result.args[1] # result.args[2])
        => /\ FLe(Notional(result.ret, result.args[1]), MaxNotional)
           /\ FLe(Notional(result.ret, result.args[1]),
                  get_available_capital(positions, total_realized_pnl))

(***************************************************************************)
(* C11: the volume calculate_position_size returns for invalid parameters. *)
(***************************************************************************)
InvalidRiskParameters(ps, pnl, entry_price, stop_loss) ==
    \/ entry_price = stop_loss
    \/ FLe(total_capital, Zero)
    \/ FLe(get_available_capital(ps, pnl), Zero)

\* C11: calculate_position_size returns exactly zero when entry equals stop
\* or the total or the available capital is not positive.
C11_ZeroVolume ==
    (/\ result.op = "calculate_position_size"
     /\ InvalidRiskParameters(positions, total_realized_pnl,
                              result.args[1], result.args[2]))
        => result.ret = Zero

(***************************************************************************)
(* C12: the available capital over the trading sequence.                   *)
(***************************************************************************)
\* C12: in every state of the trading sequence the available capital is
\* not negative.
C12_AvailableNonNegative ==
    FGe(get_available_capital(positions, total_realized_pnl), Zero)

(***************************************************************************)
(* C13: check_stop_loss.                                                   *)
(***************************************************************************)
\* The price has crossed the stop of position p in the adverse direction
Crossed(p, price) ==
    \/ p.side = "buy"  /\ FLe(price, p.stop_loss)
    \/ p.side = "sell" /\ FGe(price, p.stop_loss)

StopAnswer ==
    result.op = "check_stop_loss" =>
        /\ Has(positions, result.args[1])
        /\ result.ret = Crossed(Get(positions, result.args[1]), result.args[2])

Unchanged ==
    UNCHANGED <<positions, closed_positions, consecutive_losses,
                total_realized_pnl, peak_capital, snapshot, now>>

StopQuery == result'.op = "check_stop_loss" => Unchanged

\* C13: check_stop_loss on a live position returns true exactly when the price
\* is at or beyond the stop in the adverse direction (price <= stop for a long,
\* price >= stop for a short), and it changes no state.
C13_CheckStopLoss == []StopAnswer /\ [][StopQuery]_vars

\* C13 witness: check_stop_loss has answered true for a price equal to the
\* stop of a live short.
C13_Witness ==
    /\ result.op = "check_stop_loss"
    /\ result.ret = TRUE
    /\ Has(positions, result.args[1])
    /\ Get(positions, result.args[1]).side = "sell"
    /\ result.args[2] = Get(positions, result.args[1]).stop_loss

(***************************************************************************)
(* C14: check_take_profit.                                                 *)
(***************************************************************************)
Target(p, L) ==
    CASE L = 1 -> p.take_profit_1 [] L = 2 -> p.take_profit_2 [] L = 3 -> p.take_profit_3

ClosedAt(p, L) ==
    CASE L = 1 -> p.volume_closed_tp1 [] L = 2 -> p.volume_closed_tp2
      [] L = 3 -> p.volume_closed_tp3

\* Level L of position p is unfilled and the price has reached its target
Hit(p, L, price) ==
    /\ ClosedAt(p, L) = Zero
    /\ \/ p.side = "buy"  /\ FGe(price, Target(p, L))
       \/ p.side = "sell" /\ FLe(price, Target(p, L))

Hits(p, price) == {L \in Levels : Hit(p, L, price)}

FirstHit(p, price) ==
    CHOOSE L \in Hits(p, price) : \A K \in Hits(p, price) : K <= L

TakeProfitAnswer ==
    result.op = "check_take_profit" =>
        /\ Has(positions, result.args[1])
        /\ result.ret =
             IF Hits(Get(positions, result.args[1]), result.args[2]) = {}
             THEN <<0, FALSE>>
             ELSE <<FirstHit(Get(positions, result.args[1]), result.args[2]), TRUE>>

TakeProfitQuery == result'.op = "check_take_profit" => Unchanged

\* C14: check_take_profit on a live position returns (L, true) for the highest
\* level L that is unfilled and whose target the price has reached (>= for a
\* long, <= for a short), one level per call, returns (0, false) when there is
\* none, and changes no state.
C14_CheckTakeProfit == []TakeProfitAnswer /\ [][TakeProfitQuery]_vars

\* C14 witness: with level 3 filled and the price at target 3, beyond the
\* unfilled targets 1 and 2, check_take_profit has answered level 2 alone.
C14_Witness ==
    /\ result.op = "check_take_profit"
    /\ result.ret = <<2, TRUE>>
    /\ Has(positions, result.args[1])
    /\ Get(positions, result.args[1]).volume_closed_tp3 # Zero
    /\ result.args[2] = Get(positions, result.args[1]).take_profit_3
    /\ Hits(Get(positions, result.args[1]), result.args[2]) = {1, 2}

(***************************************************************************)
(* C15: the unrealized PnL of the live positions.                          *)
(***************************************************************************)
\* (current price - entry) x open volume for a long, the inverse for a short
MarkedPnl(p) ==
    IF p.side = "buy"
    THEN FMul(FSub(p.current_price, p.entry_price), get_open_volume(p))
    ELSE FMul(FSub(p.entry_price, p.current_price), get_open_volume(p))

\* C15: after every operation the unrealized PnL of each live position that
\* has been given a price is (current price - entry) x open volume for a long
\* and the inverse for a short.
C15_UnrealizedOfOpenVolume ==
    \A i \in 1..Len(positions) :
        positions[i].current_price # Zero =>
            positions[i].unrealized_pnl = MarkedPnl(positions[i])

(***************************************************************************)
(* C16: peak capital and drawdown.                                         *)
(***************************************************************************)
\* C16: peak capital is at least the current capital, as a running maximum
\* of it is, and the drawdown measured against it is not negative.
C16_DrawdownAgainstPeak ==
    /\ FGe(peak_capital, get_current_capital(positions, total_realized_pnl))
    /\ FGe(get_drawdown(positions, total_realized_pnl, peak_capital), Zero)

(***************************************************************************)
(* C17: operations called with an id that is not live.                     *)
(***************************************************************************)
Untouched ==
    UNCHANGED <<positions, closed_positions, consecutive_losses,
                total_realized_pnl>>

\* What each operation does in a step that calls it with the id
UnknownId(id) ==
    /\ \A price \in UpdatePrices :
           (result'.op = "update_position_price" /\ UpdatePositionPrice(id, price))
               => (Untouched /\ result'.ret = "None")
    /\ \A price \in TargetPrices :
           (result'.op = "check_stop_loss" /\ CheckStopLoss(id, price))
               => (Untouched /\ result'.ret = FALSE)
    /\ \A price \in TargetPrices :
           (result'.op = "check_take_profit" /\ CheckTakeProfit(id, price))
               => (Untouched /\ result'.ret = <<0, FALSE>>)
    /\ \A tp_level \in Levels, price \in TargetPrices :
           (result'.op = "close_position_partial"
            /\ ClosePositionPartial(id, tp_level, price))
               => (Untouched /\ result'.ret = Zero)
    /\ \A price \in StopPrices :
           (result'.op = "close_position_stop_loss"
            /\ ClosePositionStopLoss(id, price))
               => (Untouched /\ result'.ret = Zero)

UnknownIdStep == \A id \in AnyIds : ~Has(positions, id) => UnknownId(id)

\* C17: update_position_price, check_stop_loss, check_take_profit,
\* close_position_partial and close_position_stop_loss called with an id that
\* is not live return None, false, (0, false) or zero and leave the live
\* positions, the closed history, consecutive_losses and total_realized_pnl
\* unchanged.
C17_UnknownId == [][UnknownIdStep]_vars

\* C17 witness: check_stop_loss has answered false for the id of a position
\* that has left the live set for the history, at a price beyond its stop.
C17_Witness ==
    /\ result.op = "check_stop_loss"
    /\ result.ret = FALSE
    /\ ~Has(positions, result.args[1])
    /\ \E i \in 1..Len(closed_positions) :
           /\ closed_positions[i].position_id = result.args[1]
           /\ Crossed(closed_positions[i], result.args[2])

(***************************************************************************)
(* C18: the snapshot after the operations that change the state.           *)
(***************************************************************************)
\* C18: after open_position, update_position_price, close_position_partial
\* and close_position_stop_loss the snapshot holds the live positions with
\* their current field values, consecutive_losses and total_realized_pnl.
C18_SnapshotCurrent ==
    IF snapshot.exists
    THEN snapshot = save_state(positions, consecutive_losses, total_realized_pnl)
    ELSE positions = <<>> /\ consecutive_losses = 0 /\ total_realized_pnl = Zero

(***************************************************************************)
(* C19: save_state followed by the construction of a new manager.          *)
(***************************************************************************)
\* bot_state.json is what save_state writes of the state
JustSaved ==
    snapshot = save_state(positions, consecutive_losses, total_realized_pnl)

Restarted == result'.op = "init"

RoundTrip ==
    (JustSaved /\ Restarted) =>
        /\ positions' = positions
        /\ consecutive_losses' = consecutive_losses
        /\ total_realized_pnl' = total_realized_pnl

\* C19: a manager constructed from the snapshot of a state just saved has the
\* same live positions with the same field values, the same
\* consecutive_losses and the same total_realized_pnl.
C19_RoundTrip == [][RoundTrip]_vars

\* C19 witness: a manager has been constructed from a snapshot that holds a
\* PARTIALLY_CLOSED position with a price and an unrealized PnL, after a loss
\* has been counted.
C19_Witness ==
    /\ result.op = "init"
    /\ JustSaved
    /\ consecutive_losses > 0
    /\ \E i \in 1..Len(positions) :
           /\ positions[i].status = "PARTIALLY_CLOSED"
           /\ positions[i].current_price # Zero
           /\ positions[i].unrealized_pnl # Zero
           /\ positions[i].entry_time > 0

(***************************************************************************)
(* C20: the results of a manager restarted from the snapshot.              *)
(***************************************************************************)
\* The restarted manager answers as the manager it replaces would have
SameAnswers ==
    /\ can_open_position(positions', total_realized_pnl', peak_capital',
                         consecutive_losses')
         = can_open_position(positions, total_realized_pnl, peak_capital,
                             consecutive_losses)
    /\ \A in \in SizeInputs :
           calculate_position_size(positions', total_realized_pnl',
                                   in[1], in[2], in[3])
             = calculate_position_size(positions, total_realized_pnl,
                                       in[1], in[2], in[3])
    /\ get_statistics(positions', closed_positions', consecutive_losses',
                      total_realized_pnl', peak_capital')
         = get_statistics(positions, closed_positions, consecutive_losses,
                          total_realized_pnl, peak_capital)

Resumed == (JustSaved /\ Restarted) => SameAnswers

\* C20: a manager restarted from the snapshot of a state just saved returns
\* from can_open_position, calculate_position_size and get_statistics what the
\* manager that was not restarted returns.
C20_Resumes == [][Resumed]_vars

(***************************************************************************)
(* C21: failures to write and to read bot_state.json.                      *)
(***************************************************************************)
\* The step is one of the file system or of whoever changes the file, not a
\* call of the manager
FileSystemStep == disk' # disk \/ (snapshot' # snapshot /\ now' = now)

\* An operation whose write fails returns and leaves in memory what the
\* operation returns and leaves when the write succeeds
WriteFails ==
    (disk # "ok" /\ ~FileSystemStep) => (OpenStep /\ PartialCloseStep /\ StopLossStep)

\* The manager constructed holds everything the file holds, or nothing
AllOrNone ==
    \/ /\ Len(positions') = Len(snapshot.positions)
       /\ consecutive_losses' = snapshot.consecutive_losses
       /\ total_realized_pnl' = snapshot.total_realized_pnl
    \/ /\ positions' = <<>>
       /\ consecutive_losses' = 0
       /\ total_realized_pnl' = Zero

ReadFails == Restarted => AllOrNone

\* C21: an operation whose write of the snapshot fails returns the same
\* result and leaves the same state in memory as when the write succeeds, and
\* a manager constructed from a snapshot that cannot be read holds all the
\* saved positions and counters or none of them.
C21_BestEffort == [][WriteFails /\ ReadFails]_vars

(***************************************************************************)
(* C22: the statistics after partial closes at target 1.                   *)
(***************************************************************************)
Statistics ==
    get_statistics(positions, closed_positions, consecutive_losses,
                   total_realized_pnl, peak_capital)

\* Position p has been closed in part at target 1 at a profit and holds the rest
ClosedAtTarget1(p) ==
    /\ p.status = "PARTIALLY_CLOSED"
    /\ FGt(p.volume_closed_tp1, Zero)
    /\ FGt(p.realized_pnl, Zero)
    /\ FGt(get_open_volume(p), Zero)

\* C22: when positions have been opened and each has been closed in part at
\* target 1 at a profit, get_statistics reports total_trades > 0 and
\* win_rate > 0.
C22_StatisticsAfterPartials ==
    (/\ Len(positions) > 0
     /\ \A i \in 1..Len(positions) : ClosedAtTarget1(positions[i]))
        => /\ Statistics.total_trades > 0
           /\ FGt(Statistics.win_rate, Zero)

(***************************************************************************)
(* C23: what get_statistics counts.                                        *)
(***************************************************************************)
Finished(p) == p.status \in Terminal

Gained(p) == Finished(p) /\ FGt(p.realized_pnl, Zero)

\* Every position the manager has held, live or closed
Held == Everything(positions, closed_positions)

Quotient(n, d) == IF d = 0 THEN Zero ELSE FDiv(FromInt(n), FromInt(d))

Counted(st) ==
    /\ st.total_trades = Len(SelectSeq(Held, Finished))
    /\ st.winning_trades = Len(SelectSeq(Held, Gained))
    /\ st.winning_trades + st.losing_trades = st.total_trades
    /\ st.win_rate = Quotient(st.winning_trades, st.total_trades)
    /\ st.profit_factor = IF FIsZero(st.total_loss) THEN Zero
                          ELSE FDiv(st.total_profit, st.total_loss)
    /\ st.open_positions = Len(positions)

Generated == result.op = "generate_signal"

Emitted == Generated /\ result.ret.kind = "signal"

Rising(indicators) ==
    FGt(indicators.ema_12, indicators.ema_50) /\ FGt(indicators.ema_50, indicators.ema_200)

Falling(indicators) ==
    FLt(indicators.ema_12, indicators.ema_50) /\ FLt(indicators.ema_50, indicators.ema_200)

\* C24: generate_signal emits no signal when the averages are neither rising
\* (fast > mid > slow) nor falling (fast < mid < slow), a BUY only when they
\* are rising and a SELL only when they are falling.
C24_SignalFollowsTrend ==
    /\ (Generated /\ ~Rising(result.args[2]) /\ ~Falling(result.args[2]))
           => result.ret = NoSignal
    /\ Emitted =>
           \/ result.ret.signal.signal_type = "BUY" /\ Rising(result.args[2])
           \/ result.ret.signal.signal_type = "SELL" /\ Falling(result.args[2])

\* C24 witness: a SELL has been emitted for falling averages.
C24_Witness ==
    /\ Emitted
    /\ result.ret.signal.signal_type = "SELL"
    /\ Falling(result.args[2])

(***************************************************************************)
(* C25: when generate_signal emits a signal, and with what confidence.     *)
(***************************************************************************)
Direction(indicators) ==
    IF Rising(indicators) THEN "BUY" ELSE IF Falling(indicators) THEN "SELL" ELSE "NONE"

\* ADX above the threshold less 5
TrendConfirmed(indicators) == FGt(indicators.adx_14, FromInt(20))

\* What _check_momentum_signal answers for indicators that carry no previous
\* histogram: RSI on the side of the direction and a histogram of its sign
MomentumConfirmed(indicators, direction) ==
    \/ /\ direction = "BUY"
       /\ FLt(indicators.rsi_14, FromInt(40))
       /\ FGt(indicators.macd_histogram, Zero)
    \/ /\ direction = "SELL"
       /\ FGt(indicators.rsi_14, FromInt(60))
       /\ FLt(indicators.macd_histogram, Zero)

NearBand(indicators, price, direction) ==
    \/ /\ direction = "BUY"
       /\ FLt(FSub(price, indicators.bb_lower),
              FMul(FSub(indicators.bb_upper, indicators.bb_lower), Dec(2, 10)))
    \/ /\ direction = "SELL"
       /\ FLt(FSub(indicators.bb_upper, price),
              FMul(FSub(indicators.bb_upper, indicators.bb_lower), Dec(2, 10)))

VolumeConfirmed(indicators) ==
    FGt(indicators.current_volume, FMul(indicators.volume_ma, Dec(11, 10)))

\* The sum of the satisfied weights, in hundredths
Weights(indicators, price, direction) ==
    30 + 30 + (IF NearBand(indicators, price, direction) THEN 20 ELSE 0)
            + (IF VolumeConfirmed(indicators) THEN 20 ELSE 0)

Qualifies(indicators, price, direction) ==
    /\ direction \in {"BUY", "SELL"}
    /\ TrendConfirmed(indicators)
    /\ MomentumConfirmed(indicators, direction)
    /\ Weights(indicators, price, direction) >= 75

ConfidenceOf(signal, indicators, price) ==
    /\ signal.confidence = Dec(Weights(indicators, price, signal.signal_type), 100)
    /\ FGe(signal.confidence, Dec(75, 100))
    /\ FLe(signal.confidence, FromInt(1))
    /\ NearBand(indicators, price, signal.signal_type) \/ VolumeConfirmed(indicators)
    /\ signal.position_size_percent = FMul(Dec(10, 100), signal.confidence)
    /\ FGt(signal.position_size_percent, Zero)

PricesOf(signal, price, atr) ==
    /\ signal.entry_price = price
    /\ signal.signal_type = "BUY" =>
           /\ signal.stop_loss = FSub(price, FMul(atr, FromInt(2)))
           /\ signal.take_profit_1 = FAdd(price, FMul(atr, Dec(15, 10)))
           /\ signal.take_profit_2 = FAdd(price, FMul(atr, Dec(25, 10)))
           /\ signal.take_profit_3 = FAdd(price, FMul(atr, FromInt(4)))
    /\ signal.signal_type = "SELL" =>
           /\ signal.stop_loss = FAdd(price, FMul(atr, FromInt(2)))
           /\ signal.take_profit_1 = FSub(price, FMul(atr, Dec(15, 10)))
           /\ signal.take_profit_2 = FSub(price, FMul(atr, Dec(25, 10)))
           /\ signal.take_profit_3 = FSub(price, FMul(atr, FromInt(4)))

Ordered(signal) ==
    /\ signal.signal_type = "BUY" =>
           /\ FLt(signal.stop_loss, signal.entry_price)
           /\ FLt(signal.entry_price, signal.take_profit_1)
           /\ FLt(signal.take_profit_1, signal.take_profit_2)
           /\ FLt(signal.take_profit_2, signal.take_profit_3)
    /\ signal.signal_type = "SELL" =>
           /\ FGt(signal.stop_loss, signal.entry_price)
           /\ FGt(signal.entry_price, signal.take_profit_1)
           /\ FGt(signal.take_profit_1, signal.take_profit_2)
           /\ FGt(signal.take_profit_2, signal.take_profit_3)

\* The position _execute_signal opens from the signal, alone in a manager
OpenedFrom(signal) ==
    <<NewPosition("signal",
                  [signal EXCEPT !.signal_type = "unused"] @@
                  [side   |-> IF signal.signal_type = "BUY" THEN "buy" ELSE "sell",
                   volume |-> FromInt(1)],
                  0)>>

Quiet(signal) ==
    /\ ~check_stop_loss(OpenedFrom(signal), "signal", signal.entry_price)
    /\ check_take_profit(OpenedFrom(signal), "signal", signal.entry_price)
         = <<0, FALSE>>

\* C26: an emitted signal has entry = current price, its stop at ATR x 2
\* against its direction and its targets at ATR x 1.5, 2.5 and 4.0 in its
\* favour; with ATR > 0 the prices are strictly ordered stop, entry, target 1,
\* target 2, target 3, and the position opened from it is neither stopped out
\* nor at a target at its entry price.
C26_SignalPrices ==
    Emitted =>
        /\ PricesOf(result.ret.signal, result.args[3], result.args[2].atr_14)
        /\ FGt(result.args[2].atr_14, Zero) =>
               (Ordered(result.ret.signal) /\ Quiet(result.ret.signal))

\* C26 witness: a SELL has been emitted with ATR > 0.
C26_Witness ==
    /\ Emitted
    /\ result.ret.signal.signal_type = "SELL"
    /\ FGt(result.args[2].atr_14, Zero)
    /\ FLt(result.ret.signal.take_profit_3, result.ret.signal.entry_price)

(***************************************************************************)
(* C28: signal generation never raises.                                    *)
(***************************************************************************)
\* C28: generate_signal returns a signal or no signal, never an error, for
\* every window: one shorter than the minimum, and one in a confirmed trend
\* whose MACD histogram has to be compared with its previous value; so
\* run_backtest, which lets an error of generate_signal through, never aborts.
C28_NeverRaises ==
    Generated => result.ret.kind \in {"signal", "None"}

(***************************************************************************)
(* C30: the range of the RSI.                                              *)
(***************************************************************************)
Calculated == result.op = "calculate_rsi"

\* No price of the series up to element i, nor of the seed, is below the one
\* before it: the smoothed average loss at element i is 0
NoLossUpTo(data, period, i) ==
    \A k \in 1..(Len(data) - 1) :
        (k <= period + 1 \/ k < i) => FGe(data[k + 1], data[k])

InRange(x) == FGe(x, Zero) /\ FLe(x, FromInt(100))

\* C30: every defined value of calculate_rsi is in [0, 100], and is 100
\* wherever the smoothed average loss is 0, as it is all along a strictly
\* increasing series of prices.
C30_RsiRange ==
    Calculated =>
        \A i \in 1..Len(result.ret) :
            ~result.ret[i].nan =>
                /\ InRange(result.ret[i].value)
                /\ NoLossUpTo(result.args[1], result.args[2], i) =>
                       result.ret[i].value = FromInt(100)

(***************************************************************************)
(* C27: the order of run_backtest.                                         *)
(***************************************************************************)
Running(b) == b.pc \in {"generate", "execute", "monitor", "stop", "take"}

\* Bar j of the series, counted from 0 as the code counts
BarAt(b, j) == b.ohlcv_data[j + 1]

\* One equity value and one timestamp for each of the bars L .. upto - 1
RecordedUpTo(b, upto) ==
    /\ Len(b.equity_curve) = 1 + (upto - lookback_period)
    /\ b.timestamps =
           [k \in 1..(upto - lookback_period) |->
               BarAt(b, lookback_period + k - 1).timestamp]

\* generate_signal got bars i-L .. i-1 and the close of bar i
SnapshotOfPast(b, call) ==
    /\ call.args[1] = [k \in 1..lookback_period |->
                          BarAt(b, b.i - lookback_period + k - 1)]
    /\ call.args[2] = BarAt(b, b.i).close

\* Every live position has had the price of bar i and is not at its stop
AllMonitored(b, ps) ==
    \A k \in 1..Len(ps) :
        /\ ps[k].current_price = BarAt(b, b.i).close
        /\ ~check_stop_loss(ps, ps[k].position_id, BarAt(b, b.i).close)

\* The steps of one bar in their order
BarStep ==
    /\ backtest.pc = "ready" /\ Running(backtest') =>
           backtest'.i = lookback_period /\ backtest'.pc = "generate"
    /\ backtest.pc = "generate" =>
           /\ result'.op = "generate_signal"
           /\ SnapshotOfPast(backtest, result')
           /\ backtest'.pc \in {"execute", "monitor", "aborted"}
           /\ (backtest'.pc = "execute") = (result'.ret.kind = "signal")
    /\ backtest.pc = "execute" =>
           /\ result'.op \in {"execute_signal", "open_position"}
           /\ backtest'.pc = "monitor"
    /\ backtest.pc = "monitor" /\ backtest'.pc = "stop" =>
           result'.op = "update_position_price"
    /\ backtest.pc = "stop" =>
           /\ result'.op \in {"check_stop_loss", "close_position_stop_loss"}
           /\ backtest'.pc = "take"
    /\ backtest.pc = "take" =>
           /\ result'.op \in {"check_take_profit", "close_position_partial"}
           /\ backtest'.pc = "monitor"
    /\ backtest.pc = "monitor" /\ backtest'.pc # "stop" =>
           /\ AllMonitored(backtest, positions)
           /\ backtest'.i = backtest.i + 1
           /\ backtest'.equity_curve =
                  Append(backtest.equity_curve,
                         get_current_capital(positions, total_realized_pnl))
           /\ backtest'.pc = IF backtest'.i < Len(backtest.ohlcv_data)
                             THEN "generate" ELSE "report"
    /\ Running(backtest) /\ Running(backtest') =>
           /\ backtest'.i \in {backtest.i, backtest.i + 1}
           /\ backtest'.i < Len(backtest.ohlcv_data)
    /\ Running(backtest') => RecordedUpTo(backtest', backtest'.i)
    /\ backtest'.pc = "report" =>
           RecordedUpTo(backtest', Len(backtest'.ohlcv_data))

\* C27: run_backtest takes the bars in increasing order from L to n-1 and on
\* each bar i builds the snapshot from bars i-L .. i-1 with close[i] as the
\* price, generates the signal, executes it, monitors every live position
\* (price update, then stop-loss, then take-profit) and then records exactly
\* one equity value for the bar's timestamp.
C27_BarOrder == [][BarStep]_vars

\* C27 witness: both bars of a series have been processed, a position opened
\* on the first was stopped out on the second, and the report is due.
C27_Witness ==
    /\ backtest.pc = "report"
    /\ Len(backtest.equity_curve) = 3
    /\ backtest.trades_executed = 1
    /\ Len(closed_positions) = 1
    /\ closed_positions[1].status = "STOPPED_OUT"

(***************************************************************************)
(* C29: runs of the backtest are repeatable.                               *)
(***************************************************************************)
\* C29: two backtest runs over the same bar series with the same configuration
\* open the same positions and produce the same report, whatever an earlier
\* run or an earlier Risk Manager left behind.
C29_Repeatable ==
    \A a, b \in 1..Len(backtest.runs) :
        backtest.runs[a].ohlcv_data = backtest.runs[b].ohlcv_data =>
            /\ backtest.runs[a].opened = backtest.runs[b].opened
            /\ backtest.runs[a].report = backtest.runs[b].report

Reopened ==
    /\ result'.op = "open_position"
    /\ result'.ret
    /\ Has(positions, result'.args[1])

\* The entry of the id is the new position, the other entries are as before
Replaced(id) ==
    /\ Len(positions') = Len(positions)
    /\ \A k \in 1..Len(positions) :
           IF positions[k].position_id = id
           THEN /\ positions'[k].position_id = id
                /\ positions'[k].status = "OPEN"
                /\ positions'[k].entry_price = result'.args[2].entry_price
                /\ positions'[k].volume = result'.args[2].volume
                /\ positions'[k].realized_pnl = Zero
                /\ positions'[k].entry_time = now
           ELSE positions'[k] = positions[k]

\* Two timestamps of the same second give the same id
SameSecond(t, u) ==
    t \div TicksPerSecond = u \div TicksPerSecond =>
        position_id_of(Pair, t) = position_id_of(Pair, u)

\* C35: open_position called with an id that is live, when the gate allows
\* opening, replaces the live position by the new one: the old one is not
\* moved to the history, its PnL is not realized and the live set does not
\* grow; the backtest derives the id from the pair and the integer part of the
\* bar's timestamp, so bars of the same second get the same id.
C35_Reopen ==
    [][/\ Reopened =>
              /\ Replaced(result'.args[1])
              /\ closed_positions' = closed_positions
              /\ total_realized_pnl' = total_realized_pnl
              /\ consecutive_losses' = consecutive_losses
       /\ backtest'.timestamps # backtest.timestamps =>
              \A k \in 1..Len(backtest'.timestamps) :
                  SameSecond(backtest'.timestamps[k],
                             backtest'.timestamps[Len(backtest'.timestamps)])]_vars

\* C35 witness: in a first run two bars of the same second both gave a signal,
\* both opens succeeded and one position is live, none closed.
C35_Witness ==
    /\ backtest.runs = <<>>
    /\ backtest.trades_executed = 2
    /\ Len(positions) = 1
    /\ closed_positions = <<>>
    /\ Len(backtest.timestamps) = 2
    /\ backtest.timestamps[1] # backtest.timestamps[2]

(***************************************************************************)
(* C36: a level is filled once in the monitoring loop.                     *)
(***************************************************************************)
\* The volume on which PnL has been realized: the levels filled and, for a
\* position stopped out, what was open then
RealizedVolume(p) ==
    IF p.status = "STOPPED_OUT"
    THEN FSum(<<p.volume_closed_tp1, p.volume_closed_tp2, p.volume_closed_tp3,
                get_open_volume(p)>>)
    ELSE FSum(<<p.volume_closed_tp1, p.volume_closed_tp2, p.volume_closed_tp3>>)

WithinVolume(ps) ==
    \A k \in 1..Len(ps) : FLe(RealizedVolume(ps[k]), ps[k].volume)

\* The monitoring loop has closed a level of a live position
LevelClosed ==
    /\ backtest.pc = "take"
    /\ result'.op = "close_position_partial"
    /\ result'.args # <<>>

Halted(losses) == pause_after_max_losses /\ losses >= max_consecutive_losses

\* The PnL of the stop-loss close that the step has made
PnlOfStop ==
    ClosePnl(Get(positions, result'.args[1]), result'.args[2],
             get_open_volume(Get(positions, result'.args[1])))

HaltStep ==
    Halted(consecutive_losses) =>
        /\ ~can_open_position(positions, total_realized_pnl, peak_capital,
                              consecutive_losses)[1]
        /\ result'.op = "open_position" => ~result'.ret
        /\ ~Halted(consecutive_losses') =>
               /\ result'.op = "close_position_stop_loss"
               /\ result'.args # <<>>
               /\ FGe(PnlOfStop, Zero)
               /\ consecutive_losses' = 0
        /\ result'.op \in {"close_position_partial", "update_position_price",
                           "can_open_position"} =>
               consecutive_losses' = consecutive_losses
        /\ positions = <<>> =>
               positions' = <<>> /\ Halted(consecutive_losses')

PositionAfter(id) ==
    IF Has(positions', id) THEN Get(positions', id) ELSE Get(closed_positions', id)

\* The stop-loss part of the step: an executed stop-loss removes the position
StopPart ==
    backtest.pc = "stop" /\ result'.op = "close_position_stop_loss"
                         /\ result'.args # <<>> =>
        ~Has(positions', Head(backtest.pending))

\* The take-profit part of the step on a position the stop-loss has removed
TakeAfterStop ==
    backtest.pc = "take" /\ ~Has(positions, Head(backtest.pending)) =>
        /\ result'.op = "check_take_profit"
        /\ result'.ret = <<0, FALSE>>
        /\ Unchanged

\* The take-profit part of the step on a position that is still live
TakeOne(p, price) ==
    IF Hits(p, price) = {}
    THEN result'.op = "check_take_profit" /\ Unchanged
    ELSE /\ result'.op = "close_position_partial"
         /\ result'.args # <<>>
         /\ result'.args[2] = FirstHit(p, price)
         /\ \A K \in Levels \ {FirstHit(p, price)} :
                ClosedAt(PositionAfter(p.position_id), K) = ClosedAt(p, K)

TakeLive ==
    backtest.pc = "take" /\ Has(positions, Head(backtest.pending)) =>
        TakeOne(Get(positions, Head(backtest.pending)), CurrentPrice(backtest))

\* C38: within one monitoring step a position has at most one closing event:
\* after an executed stop-loss the take-profit check of the step answers
\* (0, false) and closes nothing, and otherwise the step closes one level at
\* most, the highest unfilled level the price has reached, leaving the other
\* reached levels to the following steps.
C38_OneClose == [][StopPart /\ TakeAfterStop /\ TakeLive]_vars

\* C38 witness: with the price beyond targets 2 and 3 one step has closed
\* level 3 alone, and the next step has closed level 2 at a price still
\* beyond it.
C38_Witness ==
    /\ backtest.pc = "monitor"
    /\ result.op = "close_position_partial"
    /\ result.args # <<>>
    /\ result.args[2] = 2
    /\ Has(positions, result.args[1])
    /\ ~FIsZero(Get(positions, result.args[1]).volume_closed_tp3)
    /\ FIsZero(Get(positions, result.args[1]).volume_closed_tp1)
    /\ Reached(Get(positions, result.args[1]),
               Get(positions, result.args[1]).take_profit_2, result.args[3])

\* C38 witness of the stop-loss case: a step has executed the stop-loss of a
\* position and its take-profit check has answered (0, false).
C38_StopWitness ==
    /\ backtest.pc = "monitor"
    /\ result.op = "check_take_profit"
    /\ result.ret = <<0, FALSE>>
    /\ \E k \in 1..Len(closed_positions) :
           /\ closed_positions[k].position_id = result.args[1]
           /\ closed_positions[k].status = "STOPPED_OUT"

(***************************************************************************)
(* The ATR of the snapshot: MarketDataProcessor.process_ohlcv and           *)
(* TechnicalAnalysis.calculate_atr.  A candle is the list                   *)
(* [time, open, high, low, close, volume]; data[:, j] of the code is        *)
(* Column(data, j), with the 0-based index j of numpy.                      *)
(***************************************************************************)
Candle(time, open, high, low, close, volume) ==
    <<FromInt(time), FromInt(open), FromInt(high), FromInt(low),
      FromInt(close), FromInt(volume)>>

Column(data, j) == [k \in 1..Len(data) |-> data[k][j + 1]]

FMax(a, b) == IF FLt(a, b) THEN b ELSE a

\* np.roll(close, 1): the last element comes first
Roll(xs) == [k \in 1..Len(xs) |-> IF k = 1 THEN xs[Len(xs)] ELSE xs[k - 1]]

\* tr of calculate_atr: the maximum of tr1, tr2 and tr3, and tr1 at index 0
TrueRange(high, low, close) ==
    [k \in 1..Len(high) |->
        IF k = 1 THEN FSub(high[1], low[1])
        ELSE FMax(FSub(high[k], low[k]),
                  FMax(FAbs(FSub(high[k], Roll(close)[k])),
                       FAbs(FSub(low[k], Roll(close)[k]))))]

\* The mean of the period values of data that end at index k
MeanAt(data, period, k) ==
    FDiv(FSum([j \in 1..period |-> data[k - period + j]]), FromInt(period))

\* pd.Series(data).rolling(window=period).mean().values; the sums of the
\* modelled inputs are exact, so the running sum of pandas and the sum of the
\* window agree
calculate_sma(data, period) ==
    IF Len(data) < period THEN [k \in 1..Len(data) |-> NaN]
    ELSE [k \in 1..Len(data) |->
             IF k < period THEN NaN ELSE Number(MeanAt(data, period, k))]

calculate_atr(high, low, close, period) ==
    IF Len(high) < period THEN [k \in 1..Len(high) |-> NaN]
    ELSE calculate_sma(TrueRange(high, low, close), period)

atr_period == 14

\* atr_14 of the snapshot of process_ohlcv: high is data[:, 3], low is
\* data[:, 2] and close is data[:, 4]; None for a window that is too short
atr_14_of(ohlcv_data) ==
    IF Len(ohlcv_data) < min_candles THEN "None"
    ELSE calculate_atr(Column(ohlcv_data, 3), Column(ohlcv_data, 2),
                       Column(ohlcv_data, 4), atr_period)[Len(ohlcv_data)]

ProcessOhlcv ==
    /\ result.op = "candles"
    /\ result' = Call("process_ohlcv", result.args, atr_14_of(result.args[1]))
    /\ UNCHANGED <<positions, closed_positions, consecutive_losses,
                   total_realized_pnl, peak_capital, snapshot, disk, now>>

\* Candles with low <= open, close <= high: a narrow one, a rising one, a
\* flat one, a wide falling one, and two that gap away from a close of 100
Candles ==
    {Candle(0, 100, 101, 99, 100, 10), Candle(0, 100, 104, 100, 103, 10),
     Candle(0, 100, 100, 100, 100, 10), Candle(0, 100, 110, 90, 95, 10),
     Candle(0, 106, 108, 105, 107, 10), Candle(0, 94, 96, 92, 93, 10)}

\* A window of n candles: base repeated, then the candles b1 and b2
WindowOf(n, base, b1, b2) ==
    [k \in 1..n |-> IF k = n THEN b2 ELSE IF k = n - 1 THEN b1 ELSE base]

AtrInputs ==
    {WindowOf(n, base, b1, b2) :
        n \in {min_candles - 1, min_candles}, base \in {Candle(0, 100, 101, 99, 100, 10), Candle(0, 100, 100, 100, 100, 10)},
        b1 \in Candles, b2 \in Candles}

InitAtr ==
    /\ backtest = NoBacktester
    /\ kraken = NoClient
    /\ positions = <<>>
    /\ closed_positions = <<>>
    /\ consecutive_losses = 0
    /\ total_realized_pnl = Zero
    /\ peak_capital = total_capital
    /\ snapshot = NoSnapshot
    /\ disk = "ok"
    /\ now = 0
    /\ result \in {Call("candles", <<input>>, "None") : input \in AtrInputs}

NextAtr == ProcessOhlcv /\ UNCHANGED <<backtest, kraken>>

SpecAtr == InitAtr /\ [][NextAtr]_vars

(***************************************************************************)
(* C31: the ATR of the snapshot as the mean of the true range.             *)
(***************************************************************************)
\* The fields of a candle by their names
HighOf(data) == Column(data, 2)

LowOf(data) == Column(data, 3)

CloseOf(data) == Column(data, 4)

\* The true range the snapshot has used for the candles of data
TrueRangeUsed(data) ==
    TrueRange(Column(data, 3), Column(data, 2), Column(data, 4))

AtrByFields(data) ==
    calculate_atr(HighOf(data), LowOf(data), CloseOf(data), atr_period)[Len(data)]

\* C31: for a window of candles (timestamp, open, high, low, close, volume)
\* the ATR of the snapshot is the mean of the true range taken with the high
\* field as high and the low field as low, and every true-range value it uses
\* is >= high - low >= 0 of its candle.
C31_AtrTrueRange ==
    result.op = "process_ohlcv" /\ Len(result.args[1]) >= min_candles =>
        /\ result.ret = AtrByFields(result.args[1])
        /\ \A k \in 1..Len(result.args[1]) :
               /\ FGe(TrueRangeUsed(result.args[1])[k],
                      FSub(HighOf(result.args[1])[k], LowOf(result.args[1])[k]))
               /\ FGe(FSub(HighOf(result.args[1])[k], LowOf(result.args[1])[k]),
                      Zero)

(***************************************************************************)
(* KrakenClient: the nonce, _request with its retries, and add_order.      *)
(* kraken.stack holds the frames of the recursive _request: the            *)
(* retry_count of each and the block of its caller the call was made from. *)
(* One Attempt step is one frame from its entry to the next call of        *)
(* _request, or to the return or the exception that ends the whole call.   *)
(***************************************************************************)
max_retries == 3

retry_delay == 1

MaxClock == 3

MaxCalls == 1

\* int(time.time() * 1000) as the client may read it: ahead, still or behind
Clock == 0..MaxClock

\* Variant that takes the clock when it is not behind the counter
get_nonce_clock(nonce_counter, t) == IF nonce_counter > t THEN nonce_counter ELSE t

\* _get_nonce: max(self._nonce_counter + 1, int(time.time() * 1000))
get_nonce(nonce_counter, t) ==
    IF nonce_counter + 1 > t THEN nonce_counter + 1 ELSE t

\* A dict with key set to the value of an optional argument that was given
WithKey(params, key, optional) ==
    IF optional = <<>> THEN params ELSE (key :> optional[1]) @@ params

\* params of add_order; price and userref are <<>> when the caller leaves
\* them out
AddOrderParams(pair, side, ordertype, volume, price, userref) ==
    WithKey(WithKey([pair |-> pair, type |-> side, ordertype |-> ordertype,
                     volume |-> volume],
                    "price", price),
            "userref", userref)

Frame(retry_count, called_from) ==
    [retry_count |-> retry_count, called_from |-> called_from]

Top(k) == k.stack[Len(k.stack)]

Front(xs) == SubSeq(xs, 1, Len(xs) - 1)

\* The entry of _request with retry_count = 0
Requested(k, method, endpoint, params, private) ==
    [k EXCEPT !.pc = "send",
              !.calls = @ + 1,
              !.request = [method |-> method, endpoint |-> endpoint,
                           params |-> params, private |-> private],
              !.stack = <<Frame(0, "caller")>>,
              !.sent = <<>>,
              !.slept = <<>>,
              !.raised = "none"]

\* if private: params["nonce"] = self._get_nonce(), and the signature over them
Signed(k, t) ==
    IF k.request.private
    THEN [k EXCEPT !.nonce_counter = get_nonce(k.nonce_counter, t),
                   !.request.params =
                       ("nonce" :> get_nonce(k.nonce_counter, t)) @@ @]
    ELSE k

\* What the exchange does with the request of an attempt
Outcomes == {"ok", "rate_limit", "api_error", "connection_error", "timeout"}

\* The exchange has acted on the request: it answered without error, or the
\* answer was lost after it had acted
Placed(request, outcome) ==
    request.endpoint = "/0/private/AddOrder" /\ outcome \in {"ok", "timeout"}

\* session.get / session.post with the params of the frame
Sent(k, outcome) ==
    [k EXCEPT !.sent = Append(@, [endpoint    |-> k.request.endpoint,
                                  params      |-> k.request.params,
                                  retry_count |-> Top(k).retry_count]),
              !.orders = IF Placed(k.request, outcome)
                         THEN Append(@, k.request.params) ELSE @]

\* wait_time = self.config.retry_delay * (2 ** retry_count)
wait_time(retry_count) == retry_delay * Pow2(retry_count)

\* A RequestException in the frame on top of stack, raised inside its try
\* block (in_try) or arriving at a call made from its except block: the
\* stack after the frame that catches it has called _request again, <<>> when
\* no frame catches it
RECURSIVE Caught(_, _)
Caught(stack, in_try) ==
    IF stack = <<>> THEN <<>>
    ELSE IF in_try /\ stack[Len(stack)].retry_count < max_retries
         THEN Append(stack, Frame(stack[Len(stack)].retry_count + 1, "except"))
         ELSE Caught(Front(stack), stack[Len(stack)].called_from = "try")

\* The call ends: with its result (raised = "none") or with an exception
RequestEnded(k, raised) ==
    [k EXCEPT !.pc = "idle", !.stack = <<>>, !.raised = raised]

\* time.sleep(wait_time) and the next call of _request
Retried(k, stack) ==
    IF stack = <<>> THEN RequestEnded(k, "RequestException")
    ELSE [k EXCEPT !.stack = stack,
                   !.slept = Append(@, wait_time(stack[Len(stack)].retry_count - 1))]

\* The rest of the frame after the request has been sent
Responded(k, outcome) ==
    CASE outcome = "ok" -> RequestEnded(k, "none")
      [] outcome = "rate_limit" ->
            IF Top(k).retry_count < max_retries
            THEN Retried(k, Append(k.stack, Frame(Top(k).retry_count + 1, "try")))
            ELSE RequestEnded(k, "Exception")
      [] outcome = "api_error" -> RequestEnded(k, "Exception")
      [] OTHER -> Retried(k, Caught(k.stack, TRUE))

\* What the caller of the call has got, if anything yet
RequestReturned(k) ==
    IF k.pc = "send" THEN "pending"
    ELSE IF k.raised = "none" THEN "result" ELSE k.raised

\* add_order of a caller that gives pair, side, ordertype, volume and price
AddOrder(pair, side, ordertype, volume, price) ==
    /\ kraken.pc = "idle"
    /\ kraken.calls < MaxCalls
    /\ kraken' = Requested(kraken, "POST", "/0/private/AddOrder",
                           AddOrderParams(pair, side, ordertype, volume,
                                          <<price>>, <<>>),
                           TRUE)
    /\ result' = Call("add_order", <<pair, side, ordertype, volume, price>>,
                      "pending")
    /\ UNCHANGED <<positions, closed_positions, consecutive_losses,
                   total_realized_pnl, peak_capital, snapshot, disk, now>>

\* get_ticker: a public request
GetTicker(pair) ==
    /\ kraken.pc = "idle"
    /\ kraken.calls < MaxCalls
    /\ kraken' = Requested(kraken, "GET", "/0/public/Ticker", [pair |-> pair],
                           FALSE)
    /\ result' = Call("get_ticker", <<pair>>, "pending")
    /\ UNCHANGED <<positions, closed_positions, consecutive_losses,
                   total_realized_pnl, peak_capital, snapshot, disk, now>>

\* One attempt of _request: the frame on top signs, sends, and handles the
\* outcome; t is the clock that _get_nonce reads
Attempt(t, outcome) ==
    /\ kraken.pc = "send"
    /\ kraken' = Responded(Sent(Signed(kraken, t), outcome), outcome)
    /\ result' = [result EXCEPT !.ret = RequestReturned(kraken')]
    /\ UNCHANGED <<positions, closed_positions, consecutive_losses,
                   total_realized_pnl, peak_capital, snapshot, disk, now>>

\* Orders a caller asks of add_order
KrakenOrders ==
    {<<"XBTUSD", "buy", "limit", FromInt(1), FromInt(100)>>,
     <<"XBTUSD", "sell", "limit", FromInt(2), FromInt(100)>>}

InitKraken ==
    /\ backtest = NoBacktester
    /\ kraken \in {KrakenClient(t) : t \in Clock}
    /\ positions = <<>>
    /\ closed_positions = <<>>
    /\ consecutive_losses = 0
    /\ total_realized_pnl = Zero
    /\ peak_capital = total_capital
    /\ snapshot = NoSnapshot
    /\ disk = "ok"
    /\ now = 0
    /\ result = Call("init", <<>>, TRUE)

NextKraken ==
    \/ \E o \in KrakenOrders : AddOrder(o[1], o[2], o[3], o[4], o[5]) /\ UNCHANGED backtest
    \/ GetTicker("XBTUSD") /\ UNCHANGED backtest
    \/ \E t \in Clock, outcome \in Outcomes : Attempt(t, outcome) /\ UNCHANGED backtest

SpecKraken == InitKraken /\ [][NextKraken]_vars

(***************************************************************************)
(* C32: the nonce.                                                         *)
(***************************************************************************)
\* The nonces of the attempts of the call in progress, in the order sent
NoncesSent == [i \in 1..Len(kraken.sent) |-> kraken.sent[i].params.nonce]

\* The step has made a private attempt
PrivateAttempt == kraken.pc = "send" /\ kraken.request.private

\* C32: every _get_nonce returns a value strictly greater than every value
\* the client has returned or started from before, whatever the clock reads,
\* and every attempt of a private request, retries included, is sent with the
\* nonce that call has just returned.
C32_NonceIncreases ==
    [][/\ kraken'.nonce_counter >= kraken.nonce_counter
       /\ PrivateAttempt =>
              /\ kraken'.nonce_counter > kraken.nonce_counter
              /\ kraken'.sent[Len(kraken'.sent)].params.nonce = kraken'.nonce_counter
              /\ \A i \in 1..Len(kraken.sent) :
                     kraken.sent[i].params.nonce < kraken'.nonce_counter]_vars

\* C32 witness: a retry has been sent while the clock read less than the
\* nonce of the attempt before it, and its nonce is the greater one.
C32_Witness ==
    /\ Len(kraken.sent) >= 2
    /\ kraken.sent[1].params.nonce = MaxClock
    /\ kraken.sent[2].params.nonce = MaxClock + 1

(***************************************************************************)
(* C33: the attempts of one _request.                                      *)
(***************************************************************************)
\* C33: one call of _request makes at most max_retries + 1 attempts, waits
\* retry_delay * 2^k before retry k + 1, retries only connection/HTTP errors
\* and the rate-limit error, and raises after the last failed attempt.
C33_AtMostRetries ==
    /\ Len(kraken.sent) <= max_retries + 1
    /\ \A k \in 1..Len(kraken.slept) : kraken.slept[k] = wait_time(k - 1)

\* Every call ends: the depth of the recursion is bounded by max_retries and
\* every frame is entered at most twice from the frame below it
C33_Bounded ==
    /\ Len(kraken.stack) <= max_retries + 1
    /\ \A i \in 1..Len(kraken.stack) : kraken.stack[i].retry_count = i - 1
    /\ Len(kraken.sent) <= Pow2(max_retries + 1) - 1

(***************************************************************************)
(* C40: the deliveries of one add_order.                                   *)
(***************************************************************************)
\* The orders the exchange has acted on that the call in progress has sent
Delivered ==
    {i \in 1..Len(kraken.sent) :
        \E j \in 1..Len(kraken.orders) : kraken.orders[j] = kraken.sent[i].params}

\* The order of a request: its params without the nonce
OrderFields(params) == [key \in DOMAIN params \ {"nonce"} |-> params[key]]

\* The attempts of one add_order carry the same order, nonces that increase,
\* and neither userref nor any other key that names the order
SameOrder ==
    kraken.request # <<>> /\ kraken.request.endpoint = "/0/private/AddOrder" =>
        /\ \A i \in 1..Len(kraken.sent) :
               /\ OrderFields(kraken.sent[i].params) =
                      OrderFields(kraken.sent[1].params)
               /\ DOMAIN kraken.sent[i].params =
                      {"pair", "type", "ordertype", "volume", "price", "nonce"}
        /\ \A i, j \in 1..Len(kraken.sent) :
               i < j => kraken.sent[i].params.nonce < kraken.sent[j].params.nonce

\* C40: one add_order can deliver the order to the exchange more than once:
\* after an attempt that ends in a connection error or timeout _request sends
\* the same order again under a fresh nonce, with nothing in the request that
\* names the attempts as one order, and it does so up to max_retries further
\* times.
C40_Resends ==
    /\ SameOrder
    /\ Len(kraken.sent) <= max_retries + 1 \/ ~kraken.request.private

\* The part of C40 without the count of the resends
C40_SameOrder == SameOrder

\* A single add_order has had its order placed twice
C40_Twice ==
    /\ kraken.calls = 1
    /\ Cardinality(Delivered) >= 2

(***************************************************************************)
(* TradingBot with paper_trading off: _execute_buy_signal and              *)
(* _execute_sell_signal hand the sized order to add_order.                 *)
(***************************************************************************)
\* Variant that asks the gate of the Risk Manager before it orders
ExecuteSignalLiveGated(pair, signal, confidence) ==
    /\ kraken.pc = "idle"
    /\ kraken.calls < MaxCalls
    /\ IF \/ FLe(calculate_position_size(positions, total_realized_pnl,
                                         signal.entry_price, signal.stop_loss,
                                         confidence), Zero)
          \/ ~can_open_position(positions, total_realized_pnl, peak_capital,
                                consecutive_losses)[1]
       THEN /\ result' = Call("execute_signal_live", <<pair, signal, confidence>>,
                              "None")
            /\ UNCHANGED <<positions, closed_positions, consecutive_losses,
                           total_realized_pnl, peak_capital, disk, snapshot, now,
                           kraken>>
       ELSE AddOrder(pair, signal.side, "limit",
                     calculate_position_size(positions, total_realized_pnl,
                                             signal.entry_price, signal.stop_loss,
                                             confidence),
                     signal.entry_price)

\* _execute_buy_signal / _execute_sell_signal in the else branch of
\* paper_trading: no order for a volume <= 0, otherwise add_order with a limit
\* at the entry price; the exception of add_order is logged and dropped
ExecuteSignalLive(pair, signal, confidence) ==
    /\ kraken.pc = "idle"
    /\ kraken.calls < MaxCalls
    /\ IF FLe(calculate_position_size(positions, total_realized_pnl,
                                      signal.entry_price, signal.stop_loss,
                                      confidence), Zero)
       THEN /\ result' = Call("execute_signal_live", <<pair, signal, confidence>>,
                              "None")
            /\ UNCHANGED <<positions, closed_positions, consecutive_losses,
                           total_realized_pnl, peak_capital, disk, snapshot, now,
                           kraken>>
       ELSE AddOrder(pair, signal.side, "limit",
                     calculate_position_size(positions, total_realized_pnl,
                                             signal.entry_price, signal.stop_loss,
                                             confidence),
                     signal.entry_price)

\* _monitor_positions of the bot while the Risk Manager holds no position:
\* it returns before it asks for a price
MonitorPositionsEmpty ==
    /\ kraken.pc = "idle"
    /\ positions = <<>>
    /\ result' = Call("_monitor_positions", <<>>, "None")
    /\ UNCHANGED <<positions, closed_positions, consecutive_losses,
                   total_realized_pnl, peak_capital, disk, snapshot, now, kraken>>

\* Signals of the bot: a long, a short, and a long of a flat market whose
\* stop is its entry price
BotSignals ==
    {Order("buy", 0), Order("sell", 0),
     [Order("buy", 0) EXCEPT !.stop_loss = FromInt(100)]}

\* bot_state.json as earlier runs have left it: no loss, one loss, and the
\* number of losses in a row at which the gate closes
BotFiles ==
    {save_state(<<>>, 0, Zero), OneLoss,
     save_state(<<>>, max_consecutive_losses, FromInt(-20))}

\* A bot constructed over one of the files, with its client
InitBot ==
    /\ backtest = NoBacktester
    /\ kraken = KrakenClient(0)
    /\ snapshot \in BotFiles
    /\ positions = load_state(snapshot).positions
    /\ closed_positions = <<>>
    /\ consecutive_losses = load_state(snapshot).consecutive_losses
    /\ total_realized_pnl = load_state(snapshot).total_realized_pnl
    /\ peak_capital = total_capital
    /\ disk = "ok"
    /\ now = 0
    /\ result = Call("init", <<>>, TRUE)

NextBot ==
    \/ \E signal \in BotSignals :
           ExecuteSignalLive("XBTUSD", signal, FromInt(1)) /\ UNCHANGED backtest
    \/ \E t \in Clock, outcome \in Outcomes : Attempt(t, outcome) /\ UNCHANGED backtest
    \/ MonitorPositionsEmpty /\ UNCHANGED backtest

SpecBot == InitBot /\ [][NextBot]_vars

(***************************************************************************)
(* C39: live orders and the Risk Manager.                                  *)
(***************************************************************************)
\* The gate of the Risk Manager in the current state
Gate ==
    can_open_position(positions, total_realized_pnl, peak_capital,
                      consecutive_losses)[1]

LiveStep ==
    /\ result'.op = "execute_signal_live" =>
           FLe(calculate_position_size(positions, total_realized_pnl,
                                       result'.args[2].entry_price,
                                       result'.args[2].stop_loss,
                                       result'.args[3]), Zero)
    /\ result'.op = "add_order" /\ kraken.pc = "idle" =>
           /\ kraken'.pc = "send"
           /\ FGt(result'.args[4], Zero)
    /\ result'.op = "_monitor_positions" => kraken' = kraken
    /\ Unchanged

\* C39: with paper_trading off, a handled signal whose computed volume is
\* positive is handed to add_order whatever can_open_position says, and no
\* step of the order registers a position or changes the Risk Manager, so the
\* limits do not restrict live orders and the monitoring finds no position.
C39_LiveUngated == [][LiveStep]_vars

\* C39 witness: the gate is closed after max_consecutive_losses losses, the
\* exchange has placed an order of the bot, no position is live, and the
\* monitoring has returned at once.
C39_Witness ==
    /\ ~Gate
    /\ kraken.orders # <<>>
    /\ positions = <<>>
    /\ result.op = "_monitor_positions"

====
